---- MODULE Spec2Model ----
(***************************************************************************)
(* A model of relab/iago: the group orchestrator (Group.Run, Group.Close), *)
(* the SSH host life cycle (DialSSH, sshHost.Close) and the destination    *)
(* naming of the copy engine (Upload / Download).                          *)
(*                                                                         *)
(* Strings are sequences of one-character strings, so that concatenation   *)
(* and path cleaning are computed and not assumed.  Go error values are    *)
(* records tagged by "kind".                                               *)
(***************************************************************************)
EXTENDS Naturals, Integers, Sequences, FiniteSets, TLC

(***************************************************************************)
(* Bounds of the model.                                                    *)
(***************************************************************************)
MaxHosts == 2
MaxTime == 2
MaxTimeout == 2
MaxCopyHosts == 2
MaxNameLen == 3

(***************************************************************************)
(* Error values.                                                           *)
(***************************************************************************)
Nil == [kind |-> "nil"]

Leaf(m) == [kind |-> "err", msg |-> m]

\* context.DeadlineExceeded and context.Canceled, as ctx.Err() reports them.
DeadlineExceeded == Leaf("context deadline exceeded")

Canceled == Leaf("context canceled")

\* The errors an action may return on its own account.
ActionErrors == {Leaf("boom")}

\* The host name and the task name change places.
TaskErrorSwapped(taskName, hostName, err) ==
    [kind |-> "TaskError", TaskName |-> hostName, HostName |-> taskName, Err |-> err]

TaskError(taskName, hostName, err) ==
    [kind |-> "TaskError", TaskName |-> taskName, HostName |-> hostName, Err |-> err]

Unwrap(e) == e.Err

wrapError(hostName, taskName, err) ==
    IF err = Nil THEN Nil ELSE TaskError(taskName, hostName, err)

(***************************************************************************)
(* The group and one call of Group.Run.                                    *)
(***************************************************************************)
VARIABLES
    hosts,       \* g.Hosts: the sequence of the hosts' names
    handler,     \* g.ErrorHandler: "Panic" or "Ignore"
    timeout,     \* g.Timeout, in ticks
    taskName,    \* the name passed to Run
    now,         \* the clock, in ticks
    startedAt,   \* the time at which Run was called
    ctx,         \* the context made by Run: [deadline, err], or NoCtx
    runPc,       \* where Run is: idle, spawn, recv, handler, returned, panicked
    spawned,     \* number of goroutines started by the first loop
    received,    \* number of results taken from the errors channel
    unit,        \* per host: none, ready, running, sending, done
    unitCtx,     \* per host: the context handed to f
    applied,     \* per host: number of times f was called
    result,      \* per host: what f returned
    msg,         \* per host: the value the goroutine sends on errors
    cur,         \* the error the handler is being called with
    handled,     \* the handler's calls so far: [err, from]
    nils         \* number of nil results received

orchVars == <<hosts, handler, timeout, taskName, now, startedAt, ctx, runPc, spawned,
              received, unit, unitCtx, applied, result, msg, cur, handled, nils>>

(***************************************************************************)
(* Connecting and closing: NewSSHGroup, DialSSH, sshHost.Close and         *)
(* Group.Close.                                                            *)
(***************************************************************************)
VARIABLES
    aliases,     \* hostAliases, the argument of NewSSHGroup
    nsgPc,       \* where NewSSHGroup is: idle, parse, loop, returned
    nsgIdx,      \* the alias the loop of NewSSHGroup is at
    nsgErr,      \* the error NewSSHGroup returned
    nsgHosts,    \* hosts, the slice NewSSHGroup appends to (indexes of aliases)
    group,       \* Hosts of the Group NewSSHGroup returned (indexes of aliases)
    dialPc,      \* per alias, where its DialSSH is: none, cfg, dial, sftp, env, done
    dialRet,     \* per alias, what DialSSH returned: [host, err]
    client,      \* per alias, the ssh.Client: none, open, closed
    sftpc,       \* per alias, the sftp.Client: none, open, closed
    session,     \* per alias, the session of fetchEnv: none, open, closed
    closePc,     \* where Group.Close is: idle, sftp, client, returned
    closeIdx,    \* the position in g.Hosts the loop of Group.Close is at
    closeErr,    \* err of Group.Close
    closeCalls,  \* per alias, number of calls of its host's Close
    sftpErr,     \* per alias, what sftpClient.Close() returned
    clientErr,   \* per alias, what client.Close() returned
    hostErr      \* per alias, what its host's Close returned

connVars == <<aliases, nsgPc, nsgIdx, nsgErr, nsgHosts, group, dialPc, dialRet,
              client, sftpc, session, closePc, closeIdx, closeErr, closeCalls,
              sftpErr, clientErr, hostErr>>

(***************************************************************************)
(* The copy engine: Upload and Download.                                   *)
(***************************************************************************)
VARIABLES
    cpNames,     \* per host of the copy, its name
    cpFetch,     \* copyAction.fetch: TRUE for Download, FALSE for Upload
    cpSrc,       \* copyAction.src
    cpDest,      \* copyAction.dest
    cpPerm,      \* copyAction.perm
    localFS,     \* the local file system, below the local prefix
    remoteFS,    \* per host, its file system, below the remote prefix
    cpDone,      \* per host, whether Apply has returned
    cpErr,       \* per host, what Apply returned
    cpWrote      \* per host, the files its Apply wrote at the destination

copyVars == <<cpNames, cpFetch, cpSrc, cpDest, cpPerm, localFS, remoteFS,
              cpDone, cpErr, cpWrote>>

(***************************************************************************)
(* Running a command: Shell.Apply and sshCmd.RunContext.                   *)
(***************************************************************************)
VARIABLES
    shSet,       \* which of sa.Stdin, sa.Stdout, sa.Stderr are not nil
    shPc,        \* where Shell.Apply is: idle, newcmd, pipe, run, collect, returned
    shK,         \* the stream whose pipe Shell.Apply is setting up
    shErr,       \* err, the result of Shell.Apply
    goroutines,  \* goroutines, the number of pipe goroutines started
    collected,   \* number of values the deferred loop has received
    pipePc,      \* per stream, its pipe goroutine: none, copying, sending, done
    pipeVal,     \* per stream, what io.Copy returned
    pipeClosed,  \* per stream, whether its pipe has been closed by safeClose
    rcPc,        \* where RunContext is: idle, start, wait, defer, recv, returned
    rcErr,       \* err, the result of RunContext
    rcParent,    \* Err() of the context passed to Apply and RunContext
    rcCancelled, \* whether cancel of the context derived in RunContext was called
    obsPc,       \* the goroutine of RunContext: none, waiting, sending, done
    obsVal,      \* what c.session.Close() returned to that goroutine
    sess,        \* the session: none, new, running, exited, killed
    sessExit,    \* the exit of the command: nil for status 0
    sessCloses   \* number of calls of session.Close

runVars == <<shSet, shPc, shK, shErr, goroutines, collected, pipePc, pipeVal,
             pipeClosed, rcPc, rcErr, rcParent, rcCancelled, obsPc, obsVal,
             sess, sessExit, sessCloses>>

(***************************************************************************)
(* Resolving an alias: ParseSSHConfig, ConnectAddr and ClientConfig.       *)
(***************************************************************************)
VARIABLES
    cfFile,      \* configFile, the argument of ParseSSHConfig
    cfHomeOk,    \* whether os.UserHomeDir succeeds
    cfKind,      \* what is at expand(configFile): missing, unreadable, bad, config
    cfBlocks,    \* the Host blocks of the file, in the order of the file
    cfAlias,     \* hostAlias
    cfAgent,     \* the ssh agent: unavailable, empty, one
    cfFiles,     \* the files a resolution may look at: path -> kind
    cfUserOk,    \* whether user.Current succeeds
    cfPc,        \* idle, parsed, addr, hostkey, done
    cfParse,     \* what ParseSSHConfig returned: [config, err]
    cfAddr,      \* what ConnectAddr returned
    cfHostKey,   \* what getHostKeyCallback returned: [callback, err]
    cfClient     \* what ClientConfig returned: [config, err]

cfgVars == <<cfFile, cfHomeOk, cfKind, cfBlocks, cfAlias, cfAgent, cfFiles,
             cfUserOk, cfPc, cfParse, cfAddr, cfHostKey, cfClient>>

(***************************************************************************)
(* Paths: NewPath and Path.String.                                         *)
(***************************************************************************)
VARIABLES
    npPrefix,    \* prefix, the first argument of NewPath
    npPath,      \* path, the second argument of NewPath
    npPc,        \* idle, made, shown
    npRet,       \* what NewPath returned: [p, err]
    npString,    \* what String returned for the Path made
    npAbs        \* <<[p, err]>> once NewPathFromAbs(npPrefix) has returned

pathVars == <<npPrefix, npPath, npPc, npRet, npString, npAbs>>

(***************************************************************************)
(* Permissions: Perm, NewPerm, WithDirPerm, GetFilePerm and GetDirPerm.    *)
(***************************************************************************)
VARIABLES
    pm,          \* the Perm value
    pmPc,        \* idle, made
    pmSupplied,  \* <<m>> when NewPerm(m) made the value, <<>> for the zero Perm
    pmDirSet,    \* <<d>> when WithDirPerm(d) was the last one called, else <<>>
    pmGotFile,   \* <<v>> when GetFilePerm returned v
    pmGotDir     \* <<v>> when GetDirPerm returned v for the current value

permVars == <<pm, pmPc, pmSupplied, pmDirSet, pmGotFile, pmGotDir>>

(***************************************************************************)
(* Transfers: Upload.Apply and Download.Apply one after the other.         *)
(***************************************************************************)
VARIABLES
    xfLog        \* the Apply calls made, in order, each with its file systems

xferVars == <<xfLog>>

(***************************************************************************)
(* The remote file system: the operations of sftpFS.                       *)
(***************************************************************************)
VARIABLES
    sfOp,        \* the operation called last, none at first
    sfNames,     \* the names it was called with: one, or old and new
    sfErr,       \* the error it returned
    sfCalls,     \* the calls it made on wrapper.client, in order
    sfPrefix,    \* wrapper.prefix, the rootdir given to New
    sfPerm,      \* <<perm>> for Mkdir and OpenFile, the mode asked for
    sfRemote,    \* what is on the server before the call: path -> [kind, mode]
    sfAfter      \* what is on the server after Mkdir or OpenFile

sftpVars == <<sfOp, sfNames, sfErr, sfCalls, sfPrefix, sfPerm, sfRemote, sfAfter>>

(***************************************************************************)
(* Resolving again: ConnectAddr and ClientConfig called several times on   *)
(* one parsed configuration.                                               *)
(***************************************************************************)
VARIABLES
    rsLog        \* the calls made, in order: [op, alias, ret]

resVars == <<rsLog>>

(***************************************************************************)
(* The variables of the hosts: SetVar, GetVar, GetStringVar and GetIntVar. *)
(***************************************************************************)
VARIABLES
    stVars,      \* h.vars of every host: key -> value, for the keys set
    stLog        \* the calls made, in order: [op, h, key, val, ret]

storeVars == <<stVars, stLog>>

(***************************************************************************)
(* sshHost.Execute: the caller and the goroutine that closes the session.  *)
(***************************************************************************)
VARIABLES
    exPc,        \* where Execute is: idle, started, running, ran, cancel, join, returned
    exHelper,    \* the goroutine: none, waiting, closed, done
    exParent,    \* whether the context given to Execute is done
    exChild,     \* whether cancel() of childCtx has been called
    exSess,      \* the session: none, open, running, exited, lost, killed
    exCmd,       \* the command: [out, end], end one of ok, exit, io
    exBuf,       \* buf, what the session has written to Stdout
    exRunErr,    \* what session.Run returned
    exCloseErr,  \* what session.Close returned to safeClose
    exOut,       \* the result output
    exErr        \* the result err, which the goroutine holds a pointer to

execVars == <<exPc, exHelper, exParent, exChild, exSess, exCmd, exBuf, exRunErr,
              exCloseErr, exOut, exErr>>

(***************************************************************************)
(* copyFile: the handles it opens and closes.                              *)
(***************************************************************************)
VARIABLES
    ckPc,        \* where copyFile is: idle, src, dest, copy, closeDest, closeSrc, returned
    ckErr,       \* the result err, which the deferred safeClose calls may set
    ckFirst,     \* <<err>> once a return statement has set the result
    ckOpened,    \* the handles opened: from, to
    ckCloses,    \* per handle, the number of Close calls on it
    ckCloseErr,  \* per handle, what Close returned
    ckWriter     \* whether the files of the destination file system are writers

handleVars == <<ckPc, ckErr, ckFirst, ckOpened, ckCloses, ckCloseErr, ckWriter>>

(***************************************************************************)
(* Upload.Apply and Download.Apply: the paths handed to the copy.          *)
(***************************************************************************)
VARIABLES
    epSrc,       \* the Src of the action
    epDest,      \* the Dest of the action
    epEnv,       \* the environment of the host: name -> value, for the names set
    epPc,        \* idle, applied
    epCa         \* <<copyAction>> once Apply has made it

expandVars == <<epSrc, epDest, epEnv, epPc, epCa>>

\* The variables of the parts added last.
lateVars == <<storeVars, execVars, handleVars, expandVars>>

\* The variables of the parts added after the paths.
moreVars == <<permVars, xferVars, sftpVars, resVars, lateVars>>

\* The variables of all parts but the last.
beforeLate == <<orchVars, connVars, copyVars, runVars, cfgVars, pathVars, permVars,
                xferVars, sftpVars, resVars>>

exceptStore == <<beforeLate, execVars, handleVars, expandVars>>

exceptExec == <<beforeLate, storeVars, handleVars, expandVars>>

exceptHandles == <<beforeLate, storeVars, execVars, expandVars>>

exceptExpand == <<beforeLate, storeVars, execVars, handleVars>>

\* The variables of the parts that follow the orchestrator, the connections
\* and the copy engine.
restVars == <<runVars, cfgVars, pathVars, moreVars>>

exceptRun == <<orchVars, connVars, copyVars, cfgVars, pathVars, moreVars>>

exceptCfg == <<orchVars, copyVars, runVars, pathVars, moreVars>>

exceptPath == <<orchVars, connVars, copyVars, runVars, cfgVars, moreVars>>

exceptPerm == <<orchVars, connVars, copyVars, runVars, cfgVars, pathVars, xferVars,
                sftpVars, resVars, lateVars>>

exceptXfer == <<orchVars, connVars, runVars, cfgVars, pathVars, permVars, sftpVars,
                resVars, lateVars>>

exceptSftp == <<orchVars, connVars, copyVars, runVars, cfgVars, pathVars, permVars,
                xferVars, resVars, lateVars>>

exceptRes == <<orchVars, connVars, copyVars, runVars, pathVars, permVars, xferVars,
               sftpVars, lateVars>>

vars == <<orchVars, connVars, copyVars, restVars>>

HostNames == {<<"a">>, <<"b">>}

TaskNames == {<<"t">>}

Handlers == {"Panic", "Ignore"}

NoCtx == [deadline |-> 0, err |-> Nil, made |-> FALSE]

Hosts == 1..Len(hosts)

Aliases == 1..Len(aliases)

\* No connection is being made or closed.
ConnIdle ==
    /\ aliases = <<>>
    /\ nsgPc = "idle"
    /\ nsgIdx = 0
    /\ nsgErr = Nil
    /\ nsgHosts = <<>>
    /\ group = <<>>
    /\ dialPc = <<>>
    /\ dialRet = <<>>
    /\ client = <<>>
    /\ sftpc = <<>>
    /\ session = <<>>
    /\ closePc = "idle"
    /\ closeIdx = 0
    /\ closeErr = Nil
    /\ closeCalls = <<>>
    /\ sftpErr = <<>>
    /\ clientErr = <<>>
    /\ hostErr = <<>>

\* A file system without entries below its root.
EmptyFS == [q \in {} |-> 0]

\* No copy is in progress.
CopyIdle ==
    /\ cpNames = <<>>
    /\ cpFetch = FALSE
    /\ cpSrc = <<>>
    /\ cpDest = <<>>
    /\ cpPerm = <<>>
    /\ localFS = EmptyFS
    /\ remoteFS = <<>>
    /\ cpDone = <<>>
    /\ cpErr = <<>>
    /\ cpWrote = <<>>

Streams == 1..3

\* No command is being run.
RunIdle ==
    /\ shSet = <<FALSE, FALSE, FALSE>>
    /\ shPc = "idle"
    /\ shK = 0
    /\ shErr = Nil
    /\ goroutines = 0
    /\ collected = 0
    /\ pipePc = [k \in Streams |-> "none"]
    /\ pipeVal = [k \in Streams |-> Nil]
    /\ pipeClosed = [k \in Streams |-> FALSE]
    /\ rcPc = "idle"
    /\ rcErr = Nil
    /\ rcParent = Nil
    /\ rcCancelled = FALSE
    /\ obsPc = "none"
    /\ obsVal = Nil
    /\ sess = "none"
    /\ sessExit = Nil
    /\ sessCloses = 0

\* ParseSSHConfig returns this in place of a configuration with its errors.
NoConfig == [kind |-> "nil"]

\* No alias is being resolved.
CfgIdle ==
    /\ cfFile = <<>>
    /\ cfHomeOk = TRUE
    /\ cfKind = "missing"
    /\ cfBlocks = <<>>
    /\ cfAlias = <<>>
    /\ cfAgent = "unavailable"
    /\ cfFiles = <<>>
    /\ cfUserOk = TRUE
    /\ cfPc = "idle"
    /\ cfParse = [config |-> NoConfig, err |-> Nil]
    /\ cfAddr = <<>>
    /\ cfHostKey = [callback |-> NoConfig, err |-> Nil]
    /\ cfClient = [config |-> NoConfig, err |-> Nil]

\* No Path is being made.
PathIdle ==
    /\ npPrefix = <<>>
    /\ npPath = <<>>
    /\ npPc = "idle"
    /\ npRet = [p |-> <<>>, err |-> Nil]
    /\ npString = <<>>
    /\ npAbs = <<>>

\* Nothing but the orchestrator, the connections and the copy engine is in use.
PermIdle ==
    /\ pm = [perm |-> 0, haveFilePerm |-> FALSE, dirPerm |-> 0, haveDirPerm |-> FALSE]
    /\ pmPc = "idle"
    /\ pmSupplied = <<>>
    /\ pmDirSet = <<>>
    /\ pmGotFile = <<>>
    /\ pmGotDir = <<>>

XferIdle == xfLog = <<>>

SftpIdle ==
    /\ sfOp = "none"
    /\ sfNames = <<>>
    /\ sfErr = Nil
    /\ sfCalls = <<>>
    /\ sfPrefix = <<>>
    /\ sfPerm = <<>>
    /\ sfRemote = <<>>
    /\ sfAfter = <<>>

ResIdle == rsLog = <<>>

StoreIdle == stVars = <<>> /\ stLog = <<>>

ExecIdle ==
    /\ exPc = "idle"
    /\ exHelper = "none"
    /\ exParent = FALSE
    /\ exChild = FALSE
    /\ exSess = "none"
    /\ exCmd = <<>>
    /\ exBuf = <<>>
    /\ exRunErr = Nil
    /\ exCloseErr = Nil
    /\ exOut = <<>>
    /\ exErr = Nil

CloseIdle ==
    /\ ckPc = "idle"
    /\ ckErr = Nil
    /\ ckFirst = <<>>
    /\ ckOpened = {}
    /\ ckCloses = <<>>
    /\ ckCloseErr = <<>>
    /\ ckWriter = FALSE

ExpandIdle ==
    /\ epSrc = <<>>
    /\ epDest = <<>>
    /\ epEnv = <<>>
    /\ epPc = "idle"
    /\ epCa = <<>>

LateIdle == StoreIdle /\ ExecIdle /\ CloseIdle /\ ExpandIdle

MoreIdle == PermIdle /\ XferIdle /\ SftpIdle /\ ResIdle /\ LateIdle

RestIdle == RunIdle /\ CfgIdle /\ PathIdle /\ MoreIdle

\* No call of Run is in progress.
OrchIdle ==
    /\ hosts = <<>>
    /\ handler = "Panic"
    /\ timeout = 0
    /\ taskName = <<>>
    /\ now = 0
    /\ startedAt = 0
    /\ ctx = NoCtx
    /\ runPc = "idle"
    /\ spawned = 0
    /\ received = 0
    /\ unit = <<>>
    /\ unitCtx = <<>>
    /\ applied = <<>>
    /\ result = <<>>
    /\ msg = <<>>
    /\ cur = Nil
    /\ handled = <<>>
    /\ nils = 0

\* Nothing but the parts added last is in use.
BeforeLateIdle ==
    /\ OrchIdle
    /\ ConnIdle
    /\ CopyIdle
    /\ RunIdle
    /\ CfgIdle
    /\ PathIdle
    /\ PermIdle
    /\ XferIdle
    /\ SftpIdle
    /\ ResIdle

\* NewGroup's defaults are one choice of the fields; a caller may set the
\* ErrorHandler and Timeout fields of the Group to anything.
Init ==
    /\ hosts \in UNION {[1..n -> HostNames] : n \in 0..MaxHosts}
    /\ handler \in Handlers
    /\ timeout \in 0..MaxTimeout
    /\ taskName \in TaskNames
    /\ now = 0
    /\ startedAt = 0
    /\ ctx = NoCtx
    /\ runPc = "idle"
    /\ spawned = 0
    /\ received = 0
    /\ unit = [h \in Hosts |-> "none"]
    /\ unitCtx = [h \in Hosts |-> "none"]
    /\ applied = [h \in Hosts |-> 0]
    /\ result = [h \in Hosts |-> Nil]
    /\ msg = [h \in Hosts |-> Nil]
    /\ cur = Nil
    /\ handled = <<>>
    /\ nils = 0
    /\ ConnIdle
    /\ CopyIdle
    /\ RestIdle

\* context.WithTimeout(parent, d): a context whose deadline is d from now,
\* already expired when d is not positive.
WithTimeout(t, d) ==
    [deadline |-> t + d,
     err |-> IF d <= 0 THEN DeadlineExceeded ELSE Nil,
     made |-> TRUE]

\* The timer of the context fires once the deadline is reached.
Expire(c, t) ==
    IF c.made /\ c.err = Nil /\ t >= c.deadline
    THEN [c EXCEPT !.err = DeadlineExceeded]
    ELSE c

\* cancel(): the first cancellation wins.
Cancel(c) == IF c.err = Nil THEN [c EXCEPT !.err = Canceled] ELSE c

\* ctx.Err() of the context a unit was given.
CtxErr(c) == IF c = "run" THEN ctx.err ELSE Nil

\* The goroutines get context.Background() instead of the context of Run.
UnitContextBackground == "background"

\* The context the goroutine of a host passes to f.
UnitContext == "run"

\* The second loop waits for one result too many.
ResultsToReceiveOffByOne == Len(hosts) + 1

\* The second loop stops one result short.
ResultsToReceiveOneShort == Len(hosts) - 1

\* The number of iterations of the second loop of Run.
ResultsToReceive == Len(hosts)

\* Run is called: the context is made; the loops follow.
RunCall ==
    /\ runPc = "idle"
    /\ ctx' = WithTimeout(now, timeout)
    /\ startedAt' = now
    /\ runPc' = IF Len(hosts) = 0 THEN "recv" ELSE "spawn"
    /\ UNCHANGED <<connVars, copyVars, restVars>>
    /\ UNCHANGED <<hosts, handler, timeout, taskName, now, spawned, received,
                   unit, unitCtx, applied, result, msg, cur, handled, nils>>

\* One iteration of the first loop: go func(h Host) {...}(h).
Spawn ==
    /\ runPc = "spawn"
    /\ spawned < Len(hosts)
    /\ spawned' = spawned + 1
    /\ unit' = [unit EXCEPT ![spawned + 1] = "ready"]
    /\ unitCtx' = [unitCtx EXCEPT ![spawned + 1] = UnitContext]
    /\ runPc' = IF spawned + 1 = Len(hosts) THEN "recv" ELSE "spawn"
    /\ UNCHANGED <<connVars, copyVars, restVars>>
    /\ UNCHANGED <<hosts, handler, timeout, taskName, startedAt, now, ctx, received,
                   applied, result, msg, cur, handled, nils>>

\* The goroutine of host h calls f(ctx, h).
UnitStart(h) ==
    /\ unit[h] = "ready"
    /\ unit' = [unit EXCEPT ![h] = "running"]
    /\ applied' = [applied EXCEPT ![h] = @ + 1]
    /\ UNCHANGED <<connVars, copyVars, restVars>>
    /\ UNCHANGED <<hosts, handler, timeout, taskName, startedAt, now, ctx, runPc, spawned,
                   received, unitCtx, result, msg, cur, handled, nils>>

\* What f may return: nil, an error of its own, or the error of its context
\* once that context is done.  f may also go on running whatever the context.
Outcomes(h) ==
    {Nil} \cup ActionErrors \cup
    (IF CtxErr(unitCtx[h]) = Nil THEN {} ELSE {CtxErr(unitCtx[h])})

\* f returns r on host h; the goroutine wraps it and blocks on the send.
UnitFinish(h, r) ==
    /\ unit[h] = "running"
    /\ r \in Outcomes(h)
    /\ unit' = [unit EXCEPT ![h] = "sending"]
    /\ result' = [result EXCEPT ![h] = r]
    /\ msg' = [msg EXCEPT ![h] = wrapError(hosts[h], taskName, r)]
    /\ UNCHANGED <<connVars, copyVars, restVars>>
    /\ UNCHANGED <<hosts, handler, timeout, taskName, startedAt, now, ctx, runPc, spawned,
                   received, unitCtx, applied, cur, handled, nils>>

RecvWhileHandling(h) ==
    /\ runPc \in {"recv", "handler"}
    /\ received < ResultsToReceive
    /\ unit[h] = "sending"
    /\ unit' = [unit EXCEPT ![h] = "done"]
    /\ received' = received + 1
    /\ IF msg[h] /= Nil
       THEN /\ runPc' = "handler"
            /\ cur' = msg[h]
            /\ handled' = Append(handled, [err |-> msg[h], from |-> h])
            /\ nils' = nils
       ELSE /\ nils' = nils + 1
            /\ UNCHANGED <<runPc, cur, handled>>
    /\ UNCHANGED <<connVars, copyVars, restVars>>
    /\ UNCHANGED <<hosts, handler, timeout, taskName, startedAt, now, ctx, spawned,
                   unitCtx, applied, result, msg>>

\* One iteration of the second loop: err := <-errors, a rendezvous with the
\* goroutine of h, and the call of the handler when err is not nil.
Recv(h) ==
    /\ runPc = "recv"
    /\ received < ResultsToReceive
    /\ unit[h] = "sending"
    /\ unit' = [unit EXCEPT ![h] = "done"]
    /\ received' = received + 1
    /\ IF msg[h] /= Nil
       THEN /\ runPc' = "handler"
            /\ cur' = msg[h]
            /\ handled' = Append(handled, [err |-> msg[h], from |-> h])
            /\ nils' = nils
       ELSE /\ nils' = nils + 1
            /\ UNCHANGED <<runPc, cur, handled>>
    /\ UNCHANGED <<connVars, copyVars, restVars>>
    /\ UNCHANGED <<hosts, handler, timeout, taskName, startedAt, now, ctx, spawned,
                   unitCtx, applied, result, msg>>

\* The loop is left at the first error: Run returns once the handler has.
HandlerReturnBreak ==
    /\ runPc = "handler"
    /\ handler = "Ignore"
    /\ runPc' = "returned"
    /\ cur' = Nil
    /\ ctx' = Cancel(ctx)
    /\ UNCHANGED <<connVars, copyVars, restVars>>
    /\ UNCHANGED <<hosts, handler, timeout, taskName, startedAt, now, spawned,
                   received, unit, unitCtx, applied, result, msg, handled, nils>>

\* Ignore logs the error and returns; the loop goes on.
HandlerReturn ==
    /\ runPc = "handler"
    /\ handler = "Ignore"
    /\ runPc' = "recv"
    /\ cur' = Nil
    /\ UNCHANGED <<connVars, copyVars, restVars>>
    /\ UNCHANGED <<hosts, handler, timeout, taskName, startedAt, now, ctx, spawned,
                   received, unit, unitCtx, applied, result, msg, handled, nils>>

\* Panic calls log.Panicln: Run is unwound, its deferred cancel() runs.
HandlerPanic ==
    /\ runPc = "handler"
    /\ handler = "Panic"
    /\ runPc' = "panicked"
    /\ ctx' = Cancel(ctx)
    /\ UNCHANGED <<connVars, copyVars, restVars>>
    /\ UNCHANGED <<hosts, handler, timeout, taskName, startedAt, now, spawned, received,
                   unit, unitCtx, applied, result, msg, cur, handled, nils>>

\* Run gives up waiting once its context is done.
RunReturnOnDone ==
    /\ runPc = "recv"
    /\ received = ResultsToReceive \/ ctx.err /= Nil
    /\ runPc' = "returned"
    /\ ctx' = Cancel(ctx)
    /\ UNCHANGED <<connVars, copyVars, restVars>>
    /\ UNCHANGED <<hosts, handler, timeout, taskName, startedAt, now, spawned, received,
                   unit, unitCtx, applied, result, msg, cur, handled, nils>>

\* The second loop is over: Run returns, its deferred cancel() runs.
RunReturn ==
    /\ runPc = "recv"
    /\ received = ResultsToReceive
    /\ runPc' = "returned"
    /\ ctx' = Cancel(ctx)
    /\ UNCHANGED <<connVars, copyVars, restVars>>
    /\ UNCHANGED <<hosts, handler, timeout, taskName, startedAt, now, spawned, received,
                   unit, unitCtx, applied, result, msg, cur, handled, nils>>

\* Time passes, before Run and while it is in progress; the context expires at
\* its deadline.
Tick ==
    /\ runPc \in {"idle", "spawn", "recv", "handler"}
    /\ now < MaxTime
    /\ now' = now + 1
    /\ ctx' = Expire(ctx, now + 1)
    /\ UNCHANGED <<connVars, copyVars, restVars>>
    /\ UNCHANGED <<hosts, handler, timeout, taskName, startedAt, runPc, spawned, received,
                   unit, unitCtx, applied, result, msg, cur, handled, nils>>

Next ==
    \/ RunCall
    \/ Spawn
    \/ \E h \in Hosts : UnitStart(h)
    \/ \E h \in Hosts : \E r \in {Nil} \cup ActionErrors \cup {DeadlineExceeded, Canceled} :
          UnitFinish(h, r)
    \/ \E h \in Hosts : Recv(h)
    \/ HandlerReturn
    \/ HandlerPanic
    \/ RunReturn
    \/ Tick

Spec == Init /\ [][Next]_vars

(***************************************************************************)
(* Group.Run: the claims.                                                  *)
(***************************************************************************)
Failed(h) == unit[h] \in {"sending", "done"} /\ result[h] /= Nil

\* The handler was called with the message of host h.
HandedOver(h) == \E i \in 1..Len(handled) : handled[i] = [err |-> msg[h], from |-> h]

\* C1: f is never applied twice to a host, and when Run has returned, f was
\* applied exactly once to every host, one result per host was received, and
\* the handler calls plus the nil results number the hosts.  (A Run that a
\* panicking handler unwinds has not returned.)
C1_OneResultPerHost ==
    /\ \A h \in Hosts : applied[h] <= 1
    /\ runPc = "returned" =>
          /\ \A h \in Hosts : applied[h] = 1 /\ unit[h] = "done"
          /\ received = Len(hosts)
          /\ Len(handled) + nils = Len(hosts)

C1_Witness ==
    /\ runPc = "returned"
    /\ Len(hosts) = 2
    /\ Len(handled) = 1
    /\ nils = 1

\* C2 as stated: whichever handler is configured, once Run is over (returned
\* or unwound) with a failed host, every other host's action has run and its
\* result was received, and handed to the handler when it is an error.
C2_SiblingsReportedAnyHandler ==
    (runPc \in {"returned", "panicked"} /\ \E f \in Hosts : Failed(f)) =>
        \A h \in Hosts :
            /\ applied[h] = 1
            /\ unit[h] = "done"
            /\ msg[h] /= Nil => HandedOver(h)

\* C2 amended: with a handler that returns (Ignore), Run is never unwound,
\* and once it has returned every host's action has run, its result was
\* received, and handed to the handler when it is an error.
C2_SiblingsReportedIgnore ==
    handler = "Ignore" =>
        /\ runPc /= "panicked"
        /\ runPc = "returned" =>
              \A h \in Hosts :
                  /\ applied[h] = 1
                  /\ unit[h] = "done"
                  /\ msg[h] /= Nil => HandedOver(h)

C2_Witness ==
    /\ handler = "Ignore"
    /\ runPc = "returned"
    /\ Len(handled) = 1
    /\ \E f, h \in Hosts :
          /\ f /= h
          /\ handled[1].from = f
          /\ result[h] = Nil
          /\ unit[h] = "done"

\* C3: with no host, Run starts no goroutine, never calls the handler, and
\* once called has nothing to wait for: it can return at once.
C3_EmptyGroup ==
    Len(hosts) = 0 =>
        /\ spawned = 0
        /\ handled = <<>>
        /\ runPc \in {"idle", "recv", "returned"}
        /\ runPc = "recv" => ENABLED RunReturn

C3_Witness == Len(hosts) = 0 /\ runPc = "returned"

\* C4: every error the handler is called with is a TaskError carrying the
\* name of the host whose action returned it, the name given to Run, and the
\* action's own error as its cause; a nil result never reaches the handler.
C4_TaskErrorIdentity ==
    \A i \in 1..Len(handled) :
        LET e == handled[i].err
            h == handled[i].from
        IN /\ e.kind = "TaskError"
           /\ e.HostName = hosts[h]
           /\ e.TaskName = taskName
           /\ result[h] /= Nil
           /\ Unwrap(e) = result[h]

C4_Witness ==
    /\ Len(handled) = 2
    /\ hosts[handled[1].from] /= hosts[handled[2].from]
    /\ handled[1].err.Err /= handled[2].err.Err

\* C5: every unit holds the one context of Run, whose deadline is the call
\* time plus the group's Timeout; from the deadline on, that context is done
\* for every unit that has not yet returned.
C5_SharedDeadline ==
    /\ ctx.made => ctx.deadline = startedAt + timeout
    /\ \A h \in Hosts : unit[h] /= "none" => unitCtx[h] = "run"
    /\ (ctx.made /\ now >= startedAt + timeout) =>
          \A h \in Hosts : unit[h] \in {"ready", "running"} => CtxErr(unitCtx[h]) /= Nil

C5_Witness ==
    /\ timeout > 0
    /\ now >= startedAt + timeout
    /\ runPc = "recv"
    /\ ctx.err = DeadlineExceeded
    /\ Len(hosts) = 2
    /\ \A h \in Hosts : unit[h] = "running"

\* C6: Run has not returned as long as some host's action has not returned
\* or its result has not been received, also when the context is done.  (A
\* Run that a panicking handler unwinds has not returned.)
C6_NeverAbandons ==
    (\E h \in Hosts : unit[h] /= "done") => runPc /= "returned"

C6_Witness ==
    /\ runPc = "recv"
    /\ ctx.err = DeadlineExceeded
    /\ now > startedAt + timeout
    /\ \E h \in Hosts : unit[h] = "running"

\* C30: the handler is called by the loop of Run for each non-nil result as
\* it is received, the call in progress being for the result received last;
\* and while a call is in progress no result is received and no other call
\* is made: every unit blocked on its send stays blocked.
C30_HandlerCallsSerial ==
    /\ [](Len(handled) = received - nils)
    /\ [](runPc = "handler" =>
             (Len(handled) > 0 /\ cur = handled[Len(handled)].err))
    /\ [][runPc = "handler" =>
             /\ received' = received
             /\ handled' = handled
             /\ \A h \in Hosts : unit[h] = "sending" => unit'[h] = "sending"]_vars

\* The second host finished first and its error is being handled; the first
\* host has finished meanwhile and waits to hand over its result.
C30_Witness ==
    /\ runPc = "handler"
    /\ Len(hosts) = 2
    /\ Len(handled) = 1
    /\ handled[1].from = 2
    /\ unit[1] = "sending"
    /\ msg[1] /= Nil

(***************************************************************************)
(* NewSSHGroup and DialSSH.                                                *)
(***************************************************************************)
\* An error raised by the step `what` for alias i.
ErrAt(what, i) == [kind |-> "err", msg |-> what, host |-> i]

\* errors.Join: nil when every argument is nil, else an error that wraps the
\* arguments that are not nil, in order.
Join(errs) ==
    LET es == SelectSeq(errs, LAMBDA e : e /= Nil)
    IN IF es = <<>> THEN Nil ELSE [kind |-> "join", errs |-> es]

\* errors.Is: target is err itself or is found by unwrapping err.
RECURSIVE Is(_, _)
Is(err, target) ==
    IF err = target THEN TRUE
    ELSE IF err.kind = "join" THEN \E k \in 1..Len(err.errs) : Is(err.errs[k], target)
    ELSE IF err.kind \in {"TaskError", "wrap"} THEN Is(Unwrap(err), target)
    ELSE FALSE

NoHost == 0

\* NewSSHGroup has not been called for the aliases.
ConnReady ==
    /\ nsgPc = "idle"
    /\ nsgIdx = 0
    /\ nsgErr = Nil
    /\ nsgHosts = <<>>
    /\ group = <<>>
    /\ dialPc = [i \in Aliases |-> "none"]
    /\ dialRet = [i \in Aliases |-> [host |-> NoHost, err |-> Nil]]
    /\ client = [i \in Aliases |-> "none"]
    /\ sftpc = [i \in Aliases |-> "none"]
    /\ session = [i \in Aliases |-> "none"]
    /\ closePc = "idle"
    /\ closeIdx = 0
    /\ closeErr = Nil
    /\ closeCalls = [i \in Aliases |-> 0]
    /\ sftpErr = [i \in Aliases |-> Nil]
    /\ clientErr = [i \in Aliases |-> Nil]
    /\ hostErr = [i \in Aliases |-> Nil]

InitConn ==
    /\ OrchIdle
    /\ CopyIdle
    /\ RestIdle
    /\ aliases \in UNION {[1..n -> HostNames] : n \in 0..MaxHosts}
    /\ ConnReady

closeVars == <<closePc, closeIdx, closeErr, closeCalls, sftpErr, clientErr, hostErr>>

\* NewSSHGroup is called.
NewSSHGroupCall ==
    /\ nsgPc = "idle"
    /\ nsgPc' = "parse"
    /\ UNCHANGED <<aliases, nsgIdx, nsgErr, nsgHosts, group, dialPc, dialRet,
                   client, sftpc, session>>
    /\ UNCHANGED <<closeVars, orchVars, copyVars, restVars>>

NsgFailPartial(err) ==
    /\ nsgPc' = "returned"
    /\ nsgErr' = err
    /\ group' = nsgHosts

\* NewSSHGroup returns Group{} and err.
NsgFail(err) ==
    /\ nsgPc' = "returned"
    /\ nsgErr' = err
    /\ group' = <<>>

\* The loop of NewSSHGroup goes to the next alias, or NewSSHGroup returns
\* NewGroup(hosts) after the last one.
NsgAdvance(hs) ==
    /\ nsgHosts' = hs
    /\ nsgErr' = Nil
    /\ IF nsgIdx < Len(aliases)
       THEN /\ nsgIdx' = nsgIdx + 1
            /\ dialPc' = [dialPc EXCEPT ![nsgIdx] = "done", ![nsgIdx + 1] = "cfg"]
            /\ UNCHANGED <<nsgPc, group>>
       ELSE /\ nsgPc' = "returned"
            /\ group' = hs
            /\ dialPc' = [dialPc EXCEPT ![nsgIdx] = "done"]
            /\ UNCHANGED nsgIdx

\* ParseSSHConfig: on an error NewSSHGroup returns before its loop.
ParseConfig(ok) ==
    /\ nsgPc = "parse"
    /\ IF ~ok
       THEN /\ NsgFail(ErrAt("ParseSSHConfig", 0))
            /\ UNCHANGED <<nsgIdx, dialPc>>
       ELSE IF Len(aliases) = 0
       THEN /\ nsgPc' = "returned"
            /\ group' = <<>>
            /\ UNCHANGED <<nsgIdx, nsgErr, dialPc>>
       ELSE /\ nsgPc' = "loop"
            /\ nsgIdx' = 1
            /\ dialPc' = [dialPc EXCEPT ![1] = "cfg"]
            /\ UNCHANGED <<nsgErr, group>>
    /\ UNCHANGED <<aliases, nsgHosts, dialRet, client, sftpc, session>>
    /\ UNCHANGED <<closeVars, orchVars, copyVars, restVars>>

\* config.ClientConfig(h) for the alias the loop is at.
ClientConfig(ok) ==
    /\ nsgPc = "loop"
    /\ dialPc[nsgIdx] = "cfg"
    /\ IF ok
       THEN /\ dialPc' = [dialPc EXCEPT ![nsgIdx] = "dial"]
            /\ UNCHANGED <<nsgPc, nsgErr, group>>
       ELSE /\ NsgFail(ErrAt("ClientConfig", nsgIdx))
            /\ UNCHANGED dialPc
    /\ UNCHANGED <<aliases, nsgIdx, nsgHosts, dialRet, client, sftpc, session>>
    /\ UNCHANGED <<closeVars, orchVars, copyVars, restVars>>

\* DialSSH returns nil and err; NewSSHGroup returns Group{} and that error.
DialFail(err) ==
    /\ dialRet' = [dialRet EXCEPT ![nsgIdx] = [host |-> NoHost, err |-> err]]
    /\ dialPc' = [dialPc EXCEPT ![nsgIdx] = "done"]
    /\ NsgFail(err)

\* DialSSH: ssh.Dial.
DialNet(ok) ==
    /\ nsgPc = "loop"
    /\ dialPc[nsgIdx] = "dial"
    /\ IF ok
       THEN /\ client' = [client EXCEPT ![nsgIdx] = "open"]
            /\ dialPc' = [dialPc EXCEPT ![nsgIdx] = "sftp"]
            /\ UNCHANGED <<nsgPc, nsgErr, group, dialRet>>
       ELSE /\ DialFail(ErrAt("ssh.Dial", nsgIdx))
            /\ UNCHANGED client
    /\ UNCHANGED <<aliases, nsgIdx, nsgHosts, sftpc, session>>
    /\ UNCHANGED <<closeVars, orchVars, copyVars, restVars>>

\* DialSSH: sftp.NewClient.
DialSftp(ok) ==
    /\ nsgPc = "loop"
    /\ dialPc[nsgIdx] = "sftp"
    /\ IF ok
       THEN /\ sftpc' = [sftpc EXCEPT ![nsgIdx] = "open"]
            /\ dialPc' = [dialPc EXCEPT ![nsgIdx] = "env"]
            /\ UNCHANGED <<nsgPc, nsgErr, group, dialRet>>
       ELSE /\ DialFail(ErrAt("sftp.NewClient", nsgIdx))
            /\ UNCHANGED sftpc
    /\ UNCHANGED <<aliases, nsgIdx, nsgHosts, client, session>>
    /\ UNCHANGED <<closeVars, orchVars, copyVars, restVars>>

FetchEnvOutcomes == {"ok", "NewSession", "Output"}

\* DialSSH: fetchEnv, and the return of the host.  The session of fetchEnv,
\* once made, is closed by the deferred safeClose whatever Output returns.
FetchEnv(outcome) ==
    /\ nsgPc = "loop"
    /\ dialPc[nsgIdx] = "env"
    /\ session' = [session EXCEPT ![nsgIdx] =
                      IF outcome = "NewSession" THEN "none" ELSE "closed"]
    /\ IF outcome = "ok"
       THEN /\ dialRet' = [dialRet EXCEPT ![nsgIdx] = [host |-> nsgIdx, err |-> Nil]]
            /\ NsgAdvance(Append(nsgHosts, nsgIdx))
       ELSE /\ DialFail(ErrAt(outcome, nsgIdx))
            /\ UNCHANGED <<nsgIdx, nsgHosts>>
    /\ UNCHANGED <<aliases, client, sftpc>>
    /\ UNCHANGED <<closeVars, orchVars, copyVars, restVars>>

(***************************************************************************)
(* Group.Close and sshHost.Close.                                          *)
(***************************************************************************)
\* err = h.Close(): the errors of the hosts before are lost.
AccumulateLast(err, e) == e

\* err = errors.Join(err, h.Close())
Accumulate(err, e) == Join(<<err, e>>)

CloseResults(what, h) == {Nil, ErrAt(what, h)}

\* Group.Close is called on the group NewSSHGroup returned.
GroupCloseCall ==
    /\ nsgPc = "returned"
    /\ closePc = "idle"
    /\ closeIdx' = IF group = <<>> THEN 0 ELSE 1
    /\ closePc' = IF group = <<>> THEN "returned" ELSE "sftp"
    /\ UNCHANGED <<closeErr, closeCalls, sftpErr, clientErr, hostErr>>
    /\ UNCHANGED <<aliases, nsgPc, nsgIdx, nsgErr, nsgHosts, group, dialPc,
                   dialRet, client, sftpc, session>>
    /\ UNCHANGED <<orchVars, copyVars, restVars>>

\* h.Close() returns at once when the sftp client fails to close.
CloseSftpShortCircuit(r) ==
    LET h == group[closeIdx]
        last == closeIdx = Len(group)
    IN /\ closePc = "sftp"
       /\ r \in CloseResults("sftpClient.Close", h)
       /\ closeCalls' = [closeCalls EXCEPT ![h] = @ + 1]
       /\ sftpc' = [sftpc EXCEPT ![h] = "closed"]
       /\ sftpErr' = [sftpErr EXCEPT ![h] = r]
       /\ IF r = Nil
          THEN /\ closePc' = "client"
               /\ UNCHANGED <<closeIdx, closeErr, hostErr>>
          ELSE /\ hostErr' = [hostErr EXCEPT ![h] = r]
               /\ closeErr' = Accumulate(closeErr, r)
               /\ closeIdx' = IF last THEN closeIdx ELSE closeIdx + 1
               /\ closePc' = IF last THEN "returned" ELSE "sftp"
       /\ UNCHANGED clientErr
       /\ UNCHANGED <<aliases, nsgPc, nsgIdx, nsgErr, nsgHosts, group, dialPc,
                      dialRet, client, session>>
       /\ UNCHANGED <<orchVars, copyVars, restVars>>

\* h.Close() is called for the host the loop is at: h.sftpClient.Close(),
\* the first argument of errors.Join.
CloseSftp(r) ==
    LET h == group[closeIdx]
    IN /\ closePc = "sftp"
       /\ r \in CloseResults("sftpClient.Close", h)
       /\ closeCalls' = [closeCalls EXCEPT ![h] = @ + 1]
       /\ sftpc' = [sftpc EXCEPT ![h] = "closed"]
       /\ sftpErr' = [sftpErr EXCEPT ![h] = r]
       /\ closePc' = "client"
       /\ UNCHANGED <<closeIdx, closeErr, clientErr, hostErr>>
       /\ UNCHANGED <<aliases, nsgPc, nsgIdx, nsgErr, nsgHosts, group, dialPc,
                      dialRet, client, session>>
       /\ UNCHANGED <<orchVars, copyVars, restVars>>

\* h.client.Close(), the second argument of errors.Join; h.Close() returns
\* the join, Group.Close joins it to err and goes to the next host or returns.
CloseClient(r) ==
    LET h == group[closeIdx]
        e == Join(<<sftpErr[h], r>>)
        last == closeIdx = Len(group)
    IN /\ closePc = "client"
       /\ r \in CloseResults("client.Close", h)
       /\ client' = [client EXCEPT ![h] = "closed"]
       /\ clientErr' = [clientErr EXCEPT ![h] = r]
       /\ hostErr' = [hostErr EXCEPT ![h] = e]
       /\ closeErr' = Accumulate(closeErr, e)
       /\ closeIdx' = IF last THEN closeIdx ELSE closeIdx + 1
       /\ closePc' = IF last THEN "returned" ELSE "sftp"
       /\ UNCHANGED <<closeCalls, sftpErr>>
       /\ UNCHANGED <<aliases, nsgPc, nsgIdx, nsgErr, nsgHosts, group, dialPc,
                      dialRet, sftpc, session>>
       /\ UNCHANGED <<orchVars, copyVars, restVars>>

NextConn ==
    \/ NewSSHGroupCall
    \/ \E ok \in BOOLEAN : ParseConfig(ok)
    \/ \E ok \in BOOLEAN : ClientConfig(ok)
    \/ \E ok \in BOOLEAN : DialNet(ok)
    \/ \E ok \in BOOLEAN : DialSftp(ok)
    \/ \E o \in FetchEnvOutcomes : FetchEnv(o)
    \/ GroupCloseCall
    \/ \E r \in {Nil} \cup {ErrAt("sftpClient.Close", h) : h \in Aliases} : CloseSftp(r)
    \/ \E r \in {Nil} \cup {ErrAt("client.Close", h) : h \in Aliases} : CloseClient(r)

SpecConn == InitConn /\ [][NextConn]_vars

\* The hosts of the group on which Close has returned.
ClosedHosts ==
    {group[k] : k \in {j \in 1..Len(group) : j < closeIdx \/ closePc = "returned"}}

GroupHosts == {group[k] : k \in 1..Len(group)}

\* C8: Group.Close never calls a host's Close twice; when it has returned it
\* has called Close once on every host of the group, its error wraps the
\* error of every host whose Close failed, and it is nil exactly when no
\* host's Close failed.
C8_GroupCloseAggregates ==
    /\ \A h \in Aliases : closeCalls[h] <= 1
    /\ closePc = "returned" =>
          /\ \A h \in GroupHosts : closeCalls[h] = 1
          /\ \A h \in GroupHosts : hostErr[h] /= Nil => Is(closeErr, hostErr[h])
          /\ closeErr = Nil <=> \A h \in GroupHosts : hostErr[h] = Nil

C8_Witness ==
    /\ closePc = "returned"
    /\ Len(group) = 2
    /\ hostErr[group[1]] /= Nil
    /\ hostErr[group[2]] = Nil
    /\ closeCalls[group[2]] = 1

\* C9: when Close of an SSH host has returned, both the sftp client and the
\* ssh client have been closed, the returned error wraps each release error,
\* and it is nil exactly when both releases returned nil.
C9_HostCloseBoth ==
    \A h \in ClosedHosts :
        /\ sftpc[h] = "closed"
        /\ client[h] = "closed"
        /\ sftpErr[h] /= Nil => Is(hostErr[h], sftpErr[h])
        /\ clientErr[h] /= Nil => Is(hostErr[h], clientErr[h])
        /\ hostErr[h] = Nil <=> (sftpErr[h] = Nil /\ clientErr[h] = Nil)

C9_Witness ==
    \E h \in ClosedHosts :
        /\ sftpErr[h] /= Nil
        /\ clientErr[h] /= Nil
        /\ client[h] = "closed"

\* C10: when DialSSH has returned an error after ssh.Dial succeeded, it has
\* returned no host, and neither the ssh client nor the sftp client it had
\* opened is still open.
C10_DialTearsDown ==
    \A i \in Aliases :
        (dialPc[i] = "done" /\ dialRet[i].err /= Nil /\ client[i] /= "none") =>
            /\ dialRet[i].host = NoHost
            /\ client[i] = "closed"
            /\ sftpc[i] \in {"none", "closed"}

\* The errors NewSSHGroup returns for a fault of the configuration: of the
\* file (ParseSSHConfig) or of what it yields for an alias (ClientConfig).
ConfigErrors ==
    {ErrAt("ParseSSHConfig", 0)} \cup {ErrAt("ClientConfig", i) : i \in Aliases}

\* ssh.Dial has been called for alias i.
Attempted(i) == dialPc[i] \in {"sftp", "env", "done"}

\* C11: when NewSSHGroup has returned an error of the configuration, no
\* connection to any host of the list has been attempted.
C11_ConfigErrorBeforeDial ==
    (nsgPc = "returned" /\ nsgErr \in ConfigErrors) =>
        \A i \in Aliases : ~Attempted(i)

\* The aliases for which DialSSH returned a Host.
Connected == {i \in Aliases : dialRet[i].host /= NoHost}

\* C12: no host's Close is called twice, and when NewSSHGroup has returned
\* an error, every Host that DialSSH had returned is closed (its sftp client
\* and its ssh client) and is not in the returned group.
C12_ConnectedHostsReleased ==
    /\ \A i \in Aliases : closeCalls[i] <= 1
    /\ (nsgPc = "returned" /\ nsgErr /= Nil) =>
          \A i \in Connected :
              /\ i \notin GroupHosts
              /\ sftpc[i] = "closed"
              /\ client[i] = "closed"

\* The name of host h: DialSSH is given the alias as the name.
HostName(h) == aliases[h]

\* C26: when NewSSHGroup has returned an error the group is empty; when it
\* has returned none the group holds, for each alias in order, the host
\* DialSSH returned for it, connected and named by the alias; with no alias
\* and a configuration that parses it returns the empty group and no error.
C26_GroupPerAlias ==
    (nsgPc = "returned" /\ closePc = "idle") =>
        /\ nsgErr /= Nil => group = <<>>
        /\ nsgErr = Nil =>
              /\ Len(group) = Len(aliases)
              /\ \A k \in 1..Len(group) :
                    /\ group[k] = dialRet[k].host
                    /\ group[k] /= NoHost
                    /\ HostName(group[k]) = aliases[k]
                    /\ client[group[k]] = "open"
                    /\ sftpc[group[k]] = "open"
              /\ \A j, k \in 1..Len(group) : j /= k => group[j] /= group[k]
        /\ (aliases = <<>> /\ nsgErr /= ErrAt("ParseSSHConfig", 0)) =>
              (nsgErr = Nil /\ group = <<>>)

C26_Witness ==
    /\ nsgPc = "returned"
    /\ closePc = "idle"
    /\ nsgErr = Nil
    /\ aliases = <<<<"b">>, <<"a">>>>
    /\ Len(group) = 2
    /\ HostName(group[1]) = <<"b">>

(***************************************************************************)
(* Paths.  A string is a sequence of characters.                           *)
(***************************************************************************)
Slash == <<"/">>

Dot == <<".">>

DotDot == <<".", ".">>

\* The byte order of the characters the model uses.
Alphabet == <<".", "/", "a", "d", "e", "f", "g", "s">>

Rank(c) == CHOOSE k \in 1..Len(Alphabet) : Alphabet[k] = c

\* a < b, as Go compares strings.
RECURSIVE StrLess(_, _)
StrLess(a, b) ==
    IF b = <<>> THEN FALSE
    ELSE IF a = <<>> THEN TRUE
    ELSE IF Head(a) /= Head(b) THEN Rank(Head(a)) < Rank(Head(b))
    ELSE StrLess(Tail(a), Tail(b))

\* strings.Split(s, "/")
RECURSIVE Split(_)
Split(s) ==
    IF \A k \in 1..Len(s) : s[k] /= "/" THEN <<s>>
    ELSE LET i == CHOOSE k \in 1..Len(s) :
                      s[k] = "/" /\ \A j \in 1..(k - 1) : s[j] /= "/"
         IN <<SubSeq(s, 1, i - 1)>> \o Split(SubSeq(s, i + 1, Len(s)))

\* strings.Join(segs, "/")
RECURSIVE JoinSegs(_)
JoinSegs(segs) ==
    IF segs = <<>> THEN <<>>
    ELSE IF Len(segs) = 1 THEN segs[1]
    ELSE segs[1] \o Slash \o JoinSegs(Tail(segs))

\* The elements path.Clean keeps: no empty element, no ".", and ".." takes
\* away the element before it where there is one.
RECURSIVE CleanSegs(_, _, _)
CleanSegs(segs, out, rooted) ==
    IF segs = <<>> THEN out
    ELSE LET seg == Head(segs)
             rest == Tail(segs)
         IN IF seg = <<>> \/ seg = Dot THEN CleanSegs(rest, out, rooted)
            ELSE IF seg = DotDot
            THEN IF out /= <<>> /\ out[Len(out)] /= DotDot
                 THEN CleanSegs(rest, SubSeq(out, 1, Len(out) - 1), rooted)
                 ELSE IF rooted THEN CleanSegs(rest, out, rooted)
                 ELSE CleanSegs(rest, Append(out, seg), rooted)
            ELSE CleanSegs(rest, Append(out, seg), rooted)

\* path.Clean
Clean(p) ==
    IF p = <<>> THEN Dot
    ELSE LET rooted == p[1] = "/"
             out == CleanSegs(Split(p), <<>>, rooted)
         IN IF rooted THEN Slash \o JoinSegs(out)
            ELSE IF out = <<>> THEN Dot
            ELSE JoinSegs(out)

\* path.Join of two elements: empty elements are left out, the result is
\* cleaned.
PathJoin(a, b) ==
    IF a = <<>> /\ b = <<>> THEN <<>>
    ELSE IF a = <<>> THEN Clean(b)
    ELSE IF b = <<>> THEN Clean(a)
    ELSE Clean(a \o Slash \o b)

\* fs.ValidPath: "." or slash-separated elements none of which is empty,
\* "." or "..".
ValidPath(name) ==
    \/ name = Dot
    \/ \A k \in 1..Len(Split(name)) :
          Split(name)[k] \notin {<<>>, Dot, DotDot}

\* The directory a cleaned relative path lies in.
Parent(c) ==
    LET segs == Split(c)
    IN IF Len(segs) <= 1 THEN Dot ELSE JoinSegs(SubSeq(segs, 1, Len(segs) - 1))

\* The last element of a cleaned relative path.
Base(c) == LET segs == Split(c) IN segs[Len(segs)]

(***************************************************************************)
(* Perm.                                                                   *)
(***************************************************************************)
DefaultFilePerm == 420

DefaultDirPerm == 493

NewPerm(perm) ==
    [perm |-> perm, haveFilePerm |-> TRUE, dirPerm |-> 0, haveDirPerm |-> FALSE]

GetFilePerm(p) == IF p.haveFilePerm THEN p.perm ELSE DefaultFilePerm

GetDirPermFileFirst(p) ==
    IF p.haveFilePerm THEN p.perm
    ELSE IF p.haveDirPerm THEN p.dirPerm
    ELSE DefaultDirPerm

GetDirPerm(p) ==
    IF p.haveDirPerm THEN p.dirPerm
    ELSE IF p.haveFilePerm THEN p.perm
    ELSE DefaultDirPerm

(***************************************************************************)
(* File systems.  A file system maps the cleaned paths below its root to   *)
(* entries [kind, data, mode, by]; by is the host on whose behalf the      *)
(* entry was last written (0: it was there before).                        *)
(***************************************************************************)
PathError(op, name) == [kind |-> "err", msg |-> op, path |-> name]

IsDirAt(fsys, c) == c = Dot \/ (c \in DOMAIN fsys /\ fsys[c].kind = "dir")

\* fs.Stat
Stat(fsys, name) ==
    LET c == Clean(name)
    IN IF c = Dot THEN [err |-> Nil, isDir |-> TRUE]
       ELSE IF c \in DOMAIN fsys THEN [err |-> Nil, isDir |-> fsys[c].kind = "dir"]
       ELSE [err |-> PathError("stat", name), isDir |-> FALSE]

\* The sequence of the strings of set S in increasing order.
RECURSIVE Sorted(_)
Sorted(S) ==
    IF S = {} THEN <<>>
    ELSE LET m == CHOOSE x \in S : \A y \in S \ {x} : StrLess(x, y)
         IN <<m>> \o Sorted(S \ {m})

\* fs.ReadDir: the entries of a directory, sorted by name.
ReadDir(fsys, name) ==
    LET c == Clean(name)
    IN IF ~IsDirAt(fsys, c) THEN [err |-> PathError("readdir", name), names |-> <<>>]
       ELSE [err |-> Nil,
             names |-> Sorted({Base(q) : q \in {r \in DOMAIN fsys : Parent(r) = c}})]

\* fs.MkdirAll, from element k of the path on: every missing directory on
\* the way is made; a file on the way is an error.
RECURSIVE MkdirAllFrom(_, _, _, _, _, _)
MkdirAllFrom(fsys, name, segs, k, perm, who) ==
    IF k > Len(segs) THEN [fs |-> fsys, err |-> Nil]
    ELSE LET c == JoinSegs(SubSeq(segs, 1, k))
         IN IF c \in DOMAIN fsys
            THEN IF fsys[c].kind = "dir"
                 THEN MkdirAllFrom(fsys, name, segs, k + 1, perm, who)
                 ELSE [fs |-> fsys, err |-> PathError("mkdir", name)]
            ELSE MkdirAllFrom(
                     [q \in DOMAIN fsys \cup {c} |->
                         IF q = c
                         THEN [kind |-> "dir", data |-> 0, mode |-> perm, by |-> who]
                         ELSE fsys[q]],
                     name, segs, k + 1, perm, who)

MkdirAll(fsys, name, perm, who) ==
    LET c == Clean(name)
    IN IF c = Dot THEN [fs |-> fsys, err |-> Nil]
       ELSE MkdirAllFrom(fsys, name, Split(c), 1, perm, who)

copyFileKeepMode(src, dest, perm, from, to, who) ==
    LET s == Clean(src)
        d == Clean(dest)
    IN IF s \notin DOMAIN from THEN [fs |-> to, err |-> PathError("open", src)]
       ELSE IF IsDirAt(to, d) \/ ~IsDirAt(to, Parent(d))
       THEN [fs |-> to, err |-> PathError("open", dest)]
       ELSE [fs |-> [q \in DOMAIN to \cup {d} |->
                        IF q = d
                        THEN [kind |-> "file", data |-> from[s].data,
                              mode |-> from[s].mode, by |-> who]
                        ELSE to[q]],
             err |-> Nil]

\* copyFile: the source is opened for reading, the destination with
\* O_WRONLY|O_CREATE|O_TRUNC and the file permission, and the bytes are copied.
\* A file that is made gets the mode, a file that exists keeps its own.
copyFile(src, dest, perm, from, to, who) ==
    LET s == Clean(src)
        d == Clean(dest)
    IN IF s \notin DOMAIN from THEN [fs |-> to, err |-> PathError("open", src)]
       ELSE IF IsDirAt(to, d) \/ ~IsDirAt(to, Parent(d))
       THEN [fs |-> to, err |-> PathError("open", dest)]
       ELSE [fs |-> [q \in DOMAIN to \cup {d} |->
                        IF q = d
                        THEN [kind |-> "file",
                              data |-> from[s].data,
                              mode |-> IF d \in DOMAIN to THEN to[d].mode
                                       ELSE GetFilePerm(perm),
                              by |-> who]
                        ELSE to[q]],
             err |-> Nil]

\* copyDir: the entries of src are read, dest is made, and every entry is
\* copied in order, directories by copyDir and the rest by copyFile; the
\* first error ends the copy.
RECURSIVE copyDir(_, _, _, _, _, _)
RECURSIVE copyEntries(_, _, _, _, _, _, _, _)
RECURSIVE copyEntriesContinue(_, _, _, _, _, _, _, _)
copyEntriesContinue(src, dest, perm, from, to, who, names, k) ==
    IF k > Len(names) THEN [fs |-> to, err |-> Nil]
    ELSE LET s == PathJoin(src, names[k])
             d == PathJoin(dest, names[k])
             r == IF from[s].kind = "dir"
                  THEN copyDir(s, d, perm, from, to, who)
                  ELSE copyFile(s, d, perm, from, to, who)
             rest == copyEntriesContinue(src, dest, perm, from, r.fs, who, names, k + 1)
         IN IF r.err /= Nil THEN [fs |-> rest.fs, err |-> r.err] ELSE rest

copyEntries(src, dest, perm, from, to, who, names, k) ==
    IF k > Len(names) THEN [fs |-> to, err |-> Nil]
    ELSE LET s == PathJoin(src, names[k])
             d == PathJoin(dest, names[k])
             r == IF from[s].kind = "dir"
                  THEN copyDir(s, d, perm, from, to, who)
                  ELSE copyFile(s, d, perm, from, to, who)
         IN IF r.err /= Nil THEN r
            ELSE copyEntries(src, dest, perm, from, r.fs, who, names, k + 1)

\* copyDir makes the directory with the permission of the files.
copyDirFilePerm(src, dest, perm, from, to, who) ==
    LET files == ReadDir(from, src)
    IN IF files.err /= Nil THEN [fs |-> to, err |-> files.err]
       ELSE LET made == MkdirAll(to, dest, GetFilePerm(perm), who)
            IN IF made.err /= Nil THEN made
               ELSE copyEntries(src, dest, perm, from, made.fs, who, files.names, 1)

copyDir(src, dest, perm, from, to, who) ==
    LET files == ReadDir(from, src)
    IN IF files.err /= Nil THEN [fs |-> to, err |-> files.err]
       ELSE LET made == MkdirAll(to, dest, GetDirPerm(perm), who)
            IN IF made.err /= Nil THEN made
               ELSE copyEntries(src, dest, perm, from, made.fs, who, files.names, 1)

\* The destination copyAction.Apply copies to: a Download adds the host's
\* name, as an element for a directory and after a dot for a file.
DestFor(fetch, dest, isDir, name) ==
    IF ~fetch THEN dest
    ELSE IF isDir THEN dest \o Slash \o name
    ELSE dest \o Dot \o name

ApplyMkdirFirst(fetch, src, dest, perm, from, to, h) ==
    LET info == Stat(from, src.path)
    IN IF info.err /= Nil
       THEN [fs |-> MkdirAll(to, dest.path, GetDirPerm(perm), h).fs, err |-> info.err]
       ELSE IF info.isDir
       THEN copyDir(src.path, DestFor(fetch, dest.path, TRUE, cpNames[h]),
                    perm, from, to, h)
       ELSE copyFile(src.path, DestFor(fetch, dest.path, FALSE, cpNames[h]),
                     perm, from, to, h)

\* copyAction.Apply on host h, from the file system `from` to `to`.
Apply(fetch, src, dest, perm, from, to, h) ==
    LET info == Stat(from, src.path)
    IN IF info.err /= Nil THEN [fs |-> to, err |-> info.err]
       ELSE IF info.isDir
       THEN copyDir(src.path, DestFor(fetch, dest.path, TRUE, cpNames[h]),
                    perm, from, to, h)
       ELSE copyFile(src.path, DestFor(fetch, dest.path, FALSE, cpNames[h]),
                     perm, from, to, h)

(***************************************************************************)
(* Upload and Download on the hosts of a group.                            *)
(***************************************************************************)
NameChars == {"a", "/"}

RECURSIVE StringsUpTo(_, _)
StringsUpTo(chars, n) ==
    IF n = 0 THEN {<<>>}
    ELSE LET shorter == StringsUpTo(chars, n - 1)
         IN shorter \cup {Append(w, c) : w \in shorter, c \in chars}

\* The host names of the copy: the names with which every path handed to a
\* file system is a valid path.
CopyNames == {n \in StringsUpTo(NameChars, MaxNameLen) : n /= <<>> /\ ValidPath(n)}

File(data) == [kind |-> "file", data |-> data, mode |-> DefaultFilePerm, by |-> 0]

Dir == [kind |-> "dir", data |-> 0, mode |-> DefaultDirPerm, by |-> 0]

\* What may lie at the source path s: a file, a directory with a file, a
\* directory with a file in a subdirectory.
SourceTrees(data) ==
    { (<<"s">> :> File(data)),
      (<<"s">> :> Dir) @@ (<<"s", "/", "f">> :> File(data)),
      (<<"s">> :> Dir) @@ (<<"s", "/", "a">> :> Dir)
                       @@ (<<"s", "/", "a", "/", "f">> :> File(data)) }

CopyHosts == 1..Len(cpNames)

Path(prefix, path) == [prefix |-> prefix, path |-> path]

InitCopy ==
    /\ OrchIdle
    /\ ConnIdle
    /\ RestIdle
    /\ cpNames \in UNION {[1..n -> CopyNames] : n \in 1..MaxCopyHosts}
    /\ cpFetch \in BOOLEAN
    /\ cpSrc = Path(<<"/", "s", "s">>, <<"s">>)
    /\ cpDest = Path(<<"/", "d", "d">>, <<"d">>)
    /\ cpPerm = NewPerm(DefaultFilePerm)
    /\ IF cpFetch
       THEN /\ localFS = EmptyFS
            /\ remoteFS \in [CopyHosts -> UNION {SourceTrees(d) : d \in {1}}]
       ELSE /\ localFS \in SourceTrees(1)
            /\ remoteFS = [h \in CopyHosts |-> EmptyFS]
    /\ cpDone = [h \in CopyHosts |-> FALSE]
    /\ cpErr = [h \in CopyHosts |-> Nil]
    /\ cpWrote = [h \in CopyHosts |-> {}]

\* The files of a file system that host h wrote.
WrittenBy(fsys, h) == {q \in DOMAIN fsys : fsys[q].kind = "file" /\ fsys[q].by = h}

\* Download.Apply on host h: from the host's file system to the local one.
DownloadApply(h) ==
    LET r == Apply(TRUE, cpSrc, cpDest, cpPerm, remoteFS[h], localFS, h)
    IN /\ cpFetch
       /\ ~cpDone[h]
       /\ localFS' = r.fs
       /\ cpErr' = [cpErr EXCEPT ![h] = r.err]
       /\ cpDone' = [cpDone EXCEPT ![h] = TRUE]
       /\ cpWrote' = [cpWrote EXCEPT ![h] = WrittenBy(r.fs, h)]
       /\ UNCHANGED <<cpNames, cpFetch, cpSrc, cpDest, cpPerm, remoteFS>>
       /\ UNCHANGED <<orchVars, connVars, restVars>>

\* Upload.Apply on host h: from the local file system to the host's.
UploadApply(h) ==
    LET r == Apply(FALSE, cpSrc, cpDest, cpPerm, localFS, remoteFS[h], h)
    IN /\ ~cpFetch
       /\ ~cpDone[h]
       /\ remoteFS' = [remoteFS EXCEPT ![h] = r.fs]
       /\ cpErr' = [cpErr EXCEPT ![h] = r.err]
       /\ cpDone' = [cpDone EXCEPT ![h] = TRUE]
       /\ cpWrote' = [cpWrote EXCEPT ![h] = WrittenBy(r.fs, h)]
       /\ UNCHANGED <<cpNames, cpFetch, cpSrc, cpDest, cpPerm, localFS>>
       /\ UNCHANGED <<orchVars, connVars, restVars>>

NextCopy ==
    \/ \E h \in CopyHosts : DownloadApply(h)
    \/ \E h \in CopyHosts : UploadApply(h)

SpecCopy == InitCopy /\ [][NextCopy]_vars

\* q is p or lies below p.
Under(q, p) == q = p \/ (Len(q) > Len(p) /\ SubSeq(q, 1, Len(p) + 1) = p \o Slash)

DistinctNames == \A g, h \in CopyHosts : g /= h => cpNames[g] /= cpNames[h]

SourceIsDir(fsys) == Stat(fsys, cpSrc.path).isDir

\* C7: a Download on host h writes a file source to Dest.<name(h)> and a
\* directory source below Dest/<name(h)>; with pairwise distinct host names no
\* file is written by two hosts and every file a host wrote is still its own;
\* an Upload writes to Dest as it is.
C7_DownloadPerHost ==
    /\ \A h \in CopyHosts : (cpFetch /\ cpDone[h] /\ cpErr[h] = Nil) =>
          IF SourceIsDir(remoteFS[h])
          THEN /\ cpWrote[h] /= {}
               /\ \A q \in cpWrote[h] :
                     Under(q, Clean(cpDest.path \o Slash \o cpNames[h]))
          ELSE cpWrote[h] = {Clean(cpDest.path \o Dot \o cpNames[h])}
    /\ (cpFetch /\ DistinctNames) =>
          \A g, h \in CopyHosts :
              /\ g /= h => cpWrote[g] \cap cpWrote[h] = {}
              /\ \A q \in cpWrote[h] : localFS[q].kind = "file" /\ localFS[q].by = h
    /\ \A h \in CopyHosts : (~cpFetch /\ cpDone[h] /\ cpErr[h] = Nil) =>
          IF SourceIsDir(localFS)
          THEN /\ cpWrote[h] /= {}
               /\ \A q \in cpWrote[h] : Under(q, cpDest.path)
          ELSE cpWrote[h] = {cpDest.path}

(***************************************************************************)
(* Running a command: Shell.Apply and sshCmd.RunContext.  Of the ssh       *)
(* session the model keeps what the code relies on: Wait returns once the  *)
(* command has exited or the session was closed under it, and Close of a   *)
(* session whose command has exited reports io.EOF.                        *)
(***************************************************************************)
EOF == Leaf("EOF")

\* What session.Wait returns when the session was closed under the command.
ExitMissing == Leaf("wait: remote command exited without exit status or exit signal")

\* What session.Wait returns for a command that exits with a status other than 0.
ExitError == Leaf("Process exited with status 1")

StreamNames == <<"StdinPipe", "StdoutPipe", "StderrPipe">>

\* multierr.Append
MultiAppend(left, right) ==
    IF left = Nil THEN right
    ELSE IF right = Nil THEN left
    ELSE IF left.kind = "join" THEN [kind |-> "join", errs |-> Append(left.errs, right)]
    ELSE [kind |-> "join", errs |-> <<left, right>>]

\* The context derived in RunContext is done.
CtxDone == rcParent /= Nil \/ rcCancelled

InitRun ==
    /\ OrchIdle
    /\ ConnIdle
    /\ CopyIdle
    /\ CfgIdle
    /\ PathIdle
    /\ MoreIdle
    /\ shSet \in [Streams -> BOOLEAN]
    /\ shPc = "idle"
    /\ shK = 0
    /\ shErr = Nil
    /\ goroutines = 0
    /\ collected = 0
    /\ pipePc = [k \in Streams |-> "none"]
    /\ pipeVal = [k \in Streams |-> Nil]
    /\ pipeClosed = [k \in Streams |-> FALSE]
    /\ rcPc = "idle"
    /\ rcErr = Nil
    /\ rcParent = Nil
    /\ rcCancelled = FALSE
    /\ obsPc = "none"
    /\ obsVal = Nil
    /\ sess = "none"
    /\ sessExit = Nil
    /\ sessCloses = 0

shellVars == <<shSet, shPc, shK, shErr, goroutines, collected, pipePc, pipeVal, pipeClosed>>

rcVars == <<rcPc, rcErr, rcCancelled, obsPc, obsVal>>

\* Shell.Apply is called.
ApplyCall ==
    /\ shPc = "idle"
    /\ shPc' = "newcmd"
    /\ UNCHANGED <<shSet, shK, shErr, goroutines, collected, pipePc, pipeVal, pipeClosed>>
    /\ UNCHANGED <<rcVars, rcParent, sess, sessExit, sessCloses, exceptRun>>

\* host.NewCommand(): a new session, or the return of its error.
NewCommand(ok) ==
    /\ shPc = "newcmd"
    /\ IF ok
       THEN /\ sess' = "new"
            /\ shPc' = "pipe"
            /\ shK' = 1
            /\ UNCHANGED shErr
       ELSE /\ shErr' = Leaf("NewSession")
            /\ shPc' = "returned"
            /\ UNCHANGED <<sess, shK>>
    /\ UNCHANGED <<shSet, goroutines, collected, pipePc, pipeVal, pipeClosed>>
    /\ UNCHANGED <<rcVars, rcParent, sessExit, sessCloses, exceptRun>>

\* The deferred safeClose calls of Shell.Apply close the pipes it has made;
\* what they assign to is the err declared inside the if block of each pipe,
\* never the result of Apply.
ClosePipes == [k \in Streams |-> pipePc[k] /= "none"]

\* One of the three if blocks of Shell.Apply: for a stream that is set, the
\* pipe is made and its goroutine started, or the error is returned and the
\* deferred calls run.
PipeSetup(ok) ==
    LET k == shK
    IN /\ shPc = "pipe"
       /\ ~shSet[k] => ok
       /\ IF ok
          THEN /\ shK' = IF k = 3 THEN k ELSE k + 1
               /\ shPc' = IF k = 3 THEN "run" ELSE "pipe"
               /\ pipePc' = IF shSet[k] THEN [pipePc EXCEPT ![k] = "copying"] ELSE pipePc
               /\ goroutines' = IF shSet[k] THEN goroutines + 1 ELSE goroutines
               /\ UNCHANGED <<shErr, pipeClosed>>
          ELSE /\ shErr' = Leaf(StreamNames[k])
               /\ shPc' = "collect"
               /\ pipeClosed' = ClosePipes
               /\ UNCHANGED <<shK, pipePc, goroutines>>
       /\ UNCHANGED <<shSet, collected, pipeVal>>
       /\ UNCHANGED <<rcVars, rcParent, sess, sessExit, sessCloses, exceptRun>>

\* io.Copy of a pipe goroutine returns; the goroutine goes on to send the
\* result on errChan.
PipeFinish(k, r) ==
    /\ pipePc[k] = "copying"
    /\ pipePc' = [pipePc EXCEPT ![k] = "sending"]
    /\ pipeVal' = [pipeVal EXCEPT ![k] = r]
    /\ UNCHANGED <<shSet, shPc, shK, shErr, goroutines, collected, pipeClosed>>
    /\ UNCHANGED <<rcVars, rcParent, sess, sessExit, sessCloses, exceptRun>>

\* Shell.Apply calls cmd.RunContext(ctx, ...).
RunContextCall ==
    /\ shPc = "run"
    /\ rcPc = "idle"
    /\ rcPc' = "start"
    /\ UNCHANGED <<rcErr, rcCancelled, obsPc, obsVal>>
    /\ UNCHANGED <<shellVars, rcParent, sess, sessExit, sessCloses, exceptRun>>

\* c.session.Start(cmd): on an error RunContext returns it; else the context
\* is derived, the deferred function registered, the goroutine started and
\* c.session.Wait() called.
SessionStart(ok) ==
    /\ rcPc = "start"
    /\ IF ok
       THEN /\ sess' = "running"
            /\ obsPc' = "waiting"
            /\ rcPc' = "wait"
            /\ UNCHANGED rcErr
       ELSE /\ rcErr' = Leaf("Start")
            /\ rcPc' = "returned"
            /\ UNCHANGED <<sess, obsPc>>
    /\ UNCHANGED <<rcCancelled, obsVal>>
    /\ UNCHANGED <<shellVars, rcParent, sessExit, sessCloses, exceptRun>>

\* The command exits by itself, with status 0 or not.
CommandExit(r) ==
    /\ sess = "running"
    /\ sess' = "exited"
    /\ sessExit' = r
    /\ UNCHANGED <<shellVars, rcVars, rcParent, sessCloses, exceptRun>>

\* The context passed to Apply is cancelled or its deadline passes.
ParentDone(e) ==
    /\ rcParent = Nil
    /\ shPc /= "returned"
    /\ rcParent' = e
    /\ UNCHANGED <<shellVars, rcVars, sess, sessExit, sessCloses, exceptRun>>

\* What session.Close returns: nil when it closes the session under the
\* running command, io.EOF when the command has exited or the session is
\* closed already.
SessionCloseResult == IF sess = "running" THEN Nil ELSE EOF

\* The goroutine of RunContext: after <-ctx.Done() it calls
\* c.session.Close() and goes on to send the result on errChan.
ObserverClose ==
    /\ obsPc = "waiting"
    /\ CtxDone
    /\ obsVal' = SessionCloseResult
    /\ sess' = IF sess = "running" THEN "killed" ELSE sess
    /\ sessCloses' = sessCloses + 1
    /\ obsPc' = "sending"
    /\ UNCHANGED <<rcPc, rcErr, rcCancelled>>
    /\ UNCHANGED <<shellVars, rcParent, sessExit, exceptRun>>

\* What c.session.Wait() returns.
WaitResult == IF sess = "killed" THEN ExitMissing ELSE sessExit

\* return c.session.Wait(): Wait returns and its result is assigned to err.
WaitReturn ==
    /\ rcPc = "wait"
    /\ sess \in {"exited", "killed"}
    /\ rcErr' = WaitResult
    /\ rcPc' = "defer"
    /\ UNCHANGED <<rcCancelled, obsPc, obsVal>>
    /\ UNCHANGED <<shellVars, rcParent, sess, sessExit, sessCloses, exceptRun>>

\* The deferred function of RunContext: cancel(), and the test of err.
DeferCancel ==
    /\ rcPc = "defer"
    /\ rcCancelled' = TRUE
    /\ rcPc' = IF rcErr = Nil THEN "recv" ELSE "returned"
    /\ UNCHANGED <<rcErr, obsPc, obsVal>>
    /\ UNCHANGED <<shellVars, rcParent, sess, sessExit, sessCloses, exceptRun>>

\* err = <-errChan: the channel is unbuffered, the goroutine's send and this
\* receive happen together; RunContext returns.
DeferRecv ==
    /\ rcPc = "recv"
    /\ obsPc = "sending"
    /\ rcErr' = obsVal
    /\ obsPc' = "done"
    /\ rcPc' = "returned"
    /\ UNCHANGED <<rcCancelled, obsVal>>
    /\ UNCHANGED <<shellVars, rcParent, sess, sessExit, sessCloses, exceptRun>>

\* Shell.Apply returns whatever RunContext returned.
ApplyResultUnfiltered(err) == err

\* if err != nil && err != io.EOF { return err }; return nil
ApplyResult(err) == IF err /= Nil /\ err /= EOF THEN err ELSE Nil

\* RunContext has returned to Shell.Apply, which sets its result; the
\* deferred calls start with the closing of the pipes.
ApplyAfterRun ==
    /\ shPc = "run"
    /\ rcPc = "returned"
    /\ shErr' = ApplyResult(rcErr)
    /\ shPc' = "collect"
    /\ pipeClosed' = ClosePipes
    /\ UNCHANGED <<shSet, shK, goroutines, collected, pipePc, pipeVal>>
    /\ UNCHANGED <<rcVars, rcParent, sess, sessExit, sessCloses, exceptRun>>

\* The deferred loop of Shell.Apply receives the result of one pipe
\* goroutine and appends it to err when it is not nil.
Collect(k) ==
    /\ shPc = "collect"
    /\ collected < goroutines
    /\ pipePc[k] = "sending"
    /\ pipePc' = [pipePc EXCEPT ![k] = "done"]
    /\ collected' = collected + 1
    /\ shErr' = MultiAppend(shErr, pipeVal[k])
    /\ UNCHANGED <<shSet, shPc, shK, goroutines, pipeVal, pipeClosed>>
    /\ UNCHANGED <<rcVars, rcParent, sess, sessExit, sessCloses, exceptRun>>

ApplyReturnAtOnce ==
    /\ shPc = "collect"
    /\ shPc' = "returned"
    /\ UNCHANGED <<shSet, shK, shErr, goroutines, collected, pipePc, pipeVal, pipeClosed>>
    /\ UNCHANGED <<rcVars, rcParent, sess, sessExit, sessCloses, exceptRun>>

\* The deferred loop has received from every goroutine: Shell.Apply returns.
ApplyReturn ==
    /\ shPc = "collect"
    /\ collected = goroutines
    /\ shPc' = "returned"
    /\ UNCHANGED <<shSet, shK, shErr, goroutines, collected, pipePc, pipeVal, pipeClosed>>
    /\ UNCHANGED <<rcVars, rcParent, sess, sessExit, sessCloses, exceptRun>>

NextRun ==
    \/ ApplyCall
    \/ \E ok \in BOOLEAN : NewCommand(ok)
    \/ \E ok \in BOOLEAN : PipeSetup(ok)
    \/ \E k \in Streams, r \in {Nil, Leaf("io.Copy")} : PipeFinish(k, r)
    \/ RunContextCall
    \/ \E ok \in BOOLEAN : SessionStart(ok)
    \/ \E r \in {Nil, ExitError} : CommandExit(r)
    \/ \E e \in {Canceled, DeadlineExceeded} : ParentDone(e)
    \/ ObserverClose
    \/ WaitReturn
    \/ DeferCancel
    \/ DeferRecv
    \/ ApplyAfterRun
    \/ \E k \in Streams : Collect(k)
    \/ ApplyReturn

SpecRun == InitRun /\ [][NextRun]_vars

\* The goroutines of a Go program are scheduled: RunContext and its goroutine
\* take the steps they can take.  Nothing makes the command exit.
FairSpecRun ==
    /\ SpecRun
    /\ WF_vars(ObserverClose)
    /\ WF_vars(WaitReturn)
    /\ WF_vars(DeferCancel)
    /\ WF_vars(DeferRecv)

\* The context was cancelled while RunContext waits for the running command.
CancelledWhileRunning == rcPc = "wait" /\ sess = "running" /\ rcParent /= Nil

\* C13: once the context is cancelled or past its deadline while the command
\* RunContext started is still running, RunContext eventually returns, the
\* session has been closed, and the error returned is not nil and is (or
\* wraps) the error of the context.
C13_CancelReflected ==
    CancelledWhileRunning ~>
        (rcPc = "returned" /\ sessCloses > 0 /\ rcErr /= Nil /\ Is(rcErr, rcParent))

\* C14: when the command exited with status 0, the session was closed after
\* that and the close reported io.EOF, and no pipe of Apply failed, then
\* Shell.Apply returns nil.
C14_CloseAfterSuccess ==
    (/\ shPc = "returned"
     /\ sess = "exited" /\ sessExit = Nil
     /\ obsPc = "done" /\ obsVal = EOF
     /\ \A k \in Streams : pipeVal[k] = Nil) =>
        shErr = Nil

C14_Witness ==
    /\ shPc = "returned"
    /\ sess = "exited" /\ sessExit = Nil
    /\ rcErr = EOF /\ obsVal = EOF /\ sessCloses = 1
    /\ goroutines = 3
    /\ shErr = Nil

\* The streams for which Shell.Apply started a pipe goroutine.
Started == {k \in Streams : pipePc[k] /= "none"}

\* How often the error e is among the errors joined in err.
Times(err, e) ==
    IF err.kind = "join"
    THEN Cardinality({i \in 1..Len(err.errs) : err.errs[i] = e})
    ELSE IF err = e THEN 1 ELSE 0

\* C29: when Shell.Apply has returned, it has received as many results as
\* it started pipe goroutines, every goroutine it started has handed over
\* its result and ended, and the returned error holds the error of every
\* pipe that failed; so also when the making of a later pipe failed.
C29_PipesDrained ==
    shPc = "returned" =>
        /\ goroutines = Cardinality(Started)
        /\ collected = goroutines
        /\ \A k \in Started : pipePc[k] = "done"
        /\ Times(shErr, Leaf("io.Copy")) =
              Cardinality({k \in Started : pipeVal[k] /= Nil})

\* The making of the third pipe failed after two goroutines were started,
\* one of which failed.
C29_Witness ==
    /\ shPc = "returned"
    /\ rcPc = "idle"
    /\ goroutines = 2
    /\ collected = 2
    /\ pipeVal[1] /= Nil
    /\ pipeVal[2] = Nil
    /\ Times(shErr, Leaf("StderrPipe")) = 1
    /\ Times(shErr, Leaf("io.Copy")) = 1

\* C28: when RunContext has returned after starting the command, its
\* goroutine has closed the session exactly once and has ended: it is neither
\* waiting for the context nor blocked on sending the close result.
C28_ObserverJoined ==
    (rcPc = "returned" /\ sess \notin {"none", "new"}) =>
        (obsPc = "done" /\ sessCloses = 1)

(***************************************************************************)
(* Resolving an alias against the ssh configuration file.  A decoded file  *)
(* is the sequence of its Host blocks, each a pattern and the keys it      *)
(* sets.  The look-up of the ssh_config library returns the value of the   *)
(* first block that matches the alias and sets the key; it does not fail   *)
(* for a file it has decoded.                                              *)
(***************************************************************************)
HomeDir == <<"/", "h">>

\* ssh_config.Default
Default(key) ==
    CASE key = "Port" -> <<"2", "2">>
      [] key = "StrictHostKeyChecking" -> <<"a", "s", "k">>
      [] key = "IdentityFile" -> <<"~", "/", ".", "s", "s", "h", "/", "i", "d", "e", "n", "t", "i", "t", "y">>
      [] key = "UserKnownHostsFile" ->
            <<"~", "/", ".", "s", "s", "h", "/", "k", "n", "o", "w", "n", "_", "h", "o", "s", "t", "s", " ", "~", "/", ".", "s", "s", "h", "/", "k", "n", "o", "w", "n", "_", "h", "o", "s", "t", "s", "2">>
      [] OTHER -> <<>>

\* Whether a Host pattern matches a string: * stands for any characters,
\* ? for one.
RECURSIVE Glob(_, _)
Glob(pat, str) ==
    IF pat = <<>> THEN str = <<>>
    ELSE IF Head(pat) = "*"
    THEN Glob(Tail(pat), str) \/ (str /= <<>> /\ Glob(pat, Tail(str)))
    ELSE /\ str /= <<>>
         /\ Head(pat) = "?" \/ Head(pat) = Head(str)
         /\ Glob(Tail(pat), Tail(str))

\* cw.config.Get(alias, key): the blocks are tried in the order of the file.
RECURSIVE Get(_, _, _, _)
Get(blocks, k, alias, key) ==
    IF k > Len(blocks) THEN <<>>
    ELSE IF Glob(blocks[k].pattern, alias) /\ key \in DOMAIN blocks[k].kv
    THEN blocks[k].kv[key]
    ELSE Get(blocks, k + 1, alias, key)

\* sshConfig.get
get(config, alias, key) ==
    LET val == Get(config.hosts, 1, alias, key)
    IN IF val = <<>> THEN Default(key) ELSE val

\* net.JoinHostPort: a host that holds a colon or a percent sign is put in
\* brackets.
JoinHostPort(host, port) ==
    IF \E k \in 1..Len(host) : host[k] \in {":", "%"}
    THEN <<"[">> \o host \o <<"]", ":">> \o port
    ELSE host \o <<":">> \o port

\* The address is made of the alias whatever Hostname is set.
ConnectAddrOfAlias(config, alias) ==
    JoinHostPort(alias, get(config, alias, "Port"))

\* sshConfig.ConnectAddr
ConnectAddr(config, alias) ==
    LET hostname == get(config, alias, "Hostname")
    IN JoinHostPort(IF hostname = <<>> THEN alias ELSE hostname,
                    get(config, alias, "Port"))

\* expand: a leading ~/ stands for the home directory.
expand(path) ==
    IF Len(path) >= 2 /\ SubSeq(path, 1, 2) = <<"~", "/">>
    THEN PathJoin(HomeDir, SubSeq(path, 3, Len(path)))
    ELSE path

\* ParseSSHConfig returns the configuration of a file it failed to decode.
ParseSSHConfigLenient(configFile, homeOk, kind, blocks) ==
    IF configFile = <<>>
    THEN [config |-> NoConfig, err |-> Leaf("iago: no ssh config file provided")]
    ELSE IF ~homeOk
    THEN [config |-> NoConfig, err |-> Leaf("iago: failed to initialize home directory")]
    ELSE IF kind \in {"missing", "unreadable"}
    THEN [config |-> NoConfig, err |-> Leaf("iago: failed to open ssh config file")]
    ELSE [config |-> [kind |-> "config", hosts |-> blocks], err |-> Nil]

\* ParseSSHConfig, for what is at expand(configFile).
ParseSSHConfig(configFile, homeOk, kind, blocks) ==
    IF configFile = <<>>
    THEN [config |-> NoConfig, err |-> Leaf("iago: no ssh config file provided")]
    ELSE IF ~homeOk
    THEN [config |-> NoConfig, err |-> Leaf("iago: failed to initialize home directory")]
    ELSE IF kind \in {"missing", "unreadable"}
    THEN [config |-> NoConfig, err |-> Leaf("iago: failed to open ssh config file")]
    ELSE IF kind = "bad"
    THEN [config |-> NoConfig, err |-> Leaf("iago: failed to decode ssh config file")]
    ELSE [config |-> [kind |-> "config", hosts |-> blocks], err |-> Nil]

\* An error whose message ends with the alias.
ErrFor(what, alias) == [kind |-> "err", msg |-> what, alias |-> alias]

\* strings.Split(s, " ")
RECURSIVE SplitSpaces(_)
SplitSpaces(s) ==
    IF \A k \in 1..Len(s) : s[k] /= " " THEN <<s>>
    ELSE LET i == CHOOSE k \in 1..Len(s) :
                      s[k] = " " /\ \A j \in 1..(k - 1) : s[j] /= " "
         IN <<SubSeq(s, 1, i - 1)>> \o SplitSpaces(SubSeq(s, i + 1, Len(s)))

\* What is at a path.
KindAt(files, path) == IF path \in DOMAIN files THEN files[path] ELSE "missing"

\* The loop of createHostKeyCallback: the expanded paths for which os.Stat
\* does not report fs.ErrNotExist.
RECURSIVE ExistingOf(_, _)
ExistingOf(paths, files) ==
    IF paths = <<>> THEN <<>>
    ELSE LET file == expand(Head(paths))
             rest == ExistingOf(Tail(paths), files)
         IN IF KindAt(files, file) = "missing" THEN rest ELSE <<file>> \o rest

\* createHostKeyCallback: knownhosts.New fails when it cannot read one of
\* the files as a known_hosts file.
createHostKeyCallback(paths, files) ==
    LET userKnownHostsFiles == ExistingOf(paths, files)
    IN IF \E k \in 1..Len(userKnownHostsFiles) :
              KindAt(files, userKnownHostsFiles[k]) /= "hosts"
       THEN [callback |-> NoConfig, err |-> Leaf("knownhosts")]
       ELSE [callback |-> [kind |-> "knownhosts", files |-> userKnownHostsFiles],
             err |-> Nil]

\* ssh.InsecureIgnoreHostKey()
InsecureIgnoreHostKey == [kind |-> "insecure"]

\* Host keys are ignored unless StrictHostKeyChecking is yes.
getHostKeyCallbackUnlessYes(config, alias, files) ==
    IF get(config, alias, "StrictHostKeyChecking") /= <<"y", "e", "s">>
    THEN [callback |-> InsecureIgnoreHostKey, err |-> Nil]
    ELSE LET r == createHostKeyCallback(
                      SplitSpaces(get(config, alias, "UserKnownHostsFile")), files)
         IN IF r.err /= Nil
            THEN [callback |-> NoConfig,
                  err |-> ErrFor("iago: failed to create host key callback for", alias)]
            ELSE r

\* sshConfig.getHostKeyCallback
getHostKeyCallback(config, alias, files) ==
    IF get(config, alias, "StrictHostKeyChecking") = <<"n", "o">>
    THEN [callback |-> InsecureIgnoreHostKey, err |-> Nil]
    ELSE LET r == createHostKeyCallback(
                      SplitSpaces(get(config, alias, "UserKnownHostsFile")), files)
         IN IF r.err /= Nil
            THEN [callback |-> NoConfig,
                  err |-> ErrFor("iago: failed to create host key callback for", alias)]
            ELSE r

\* agentSigners: the signers of the agent, none when the agent cannot be
\* reached or holds no key.
agentSigners(agent) == IF agent = "one" THEN <<"agent">> ELSE <<>>

\* fileSigner: the signer of the private key in the file, none when the
\* file cannot be read or parsed.
fileSigner(file, files) ==
    IF KindAt(files, expand(file)) = "key" THEN <<"file">> ELSE <<>>

\* user.Current().Username
CurrentUser == <<"m", "e">>

\* ClientConfig goes on without a signer.
ClientConfigNoSignerCheck(config, alias, agent, files, userOk) ==
    LET hk == getHostKeyCallback(config, alias, files)
        signers == agentSigners(agent)
                      \o fileSigner(get(config, alias, "IdentityFile"), files)
        usr == get(config, alias, "User")
    IN IF hk.err /= Nil THEN [config |-> NoConfig, err |-> hk.err]
       ELSE IF usr = <<>> /\ ~userOk
       THEN [config |-> NoConfig, err |-> Leaf("iago: failed to get current user")]
       ELSE [config |-> [kind |-> "ClientConfig",
                         User |-> IF usr = <<>> THEN CurrentUser ELSE usr,
                         Auth |-> signers,
                         HostKeyCallback |-> hk.callback],
             err |-> Nil]

\* sshConfig.ClientConfig
ClientConfigOf(config, alias, agent, files, userOk) ==
    LET hk == getHostKeyCallback(config, alias, files)
        signers == agentSigners(agent)
                      \o fileSigner(get(config, alias, "IdentityFile"), files)
        usr == get(config, alias, "User")
    IN IF hk.err /= Nil THEN [config |-> NoConfig, err |-> hk.err]
       ELSE IF signers = <<>>
       THEN [config |-> NoConfig,
             err |-> ErrFor("iago: no valid authentication methods found for", alias)]
       ELSE IF usr = <<>> /\ ~userOk
       THEN [config |-> NoConfig, err |-> Leaf("iago: failed to get current user")]
       ELSE [config |-> [kind |-> "ClientConfig",
                         User |-> IF usr = <<>> THEN CurrentUser ELSE usr,
                         Auth |-> signers,
                         HostKeyCallback |-> hk.callback],
             err |-> Nil]

(***************************************************************************)
(* The inputs of a resolution.                                             *)
(***************************************************************************)
MaxBlocks == 2

MaxAuthBlocks == 1

ConfigFiles == {<<>>, <<"c">>, <<"~", "/", "c">>}

ConfigKinds == {"missing", "unreadable", "bad", "config"}

CfgPatterns == {<<"*">>, <<"a">>, <<"a", "*">>}

CfgAliases == {<<"a">>, <<"a", "b">>, <<"b">>}

AddrKeys == {"Hostname", "Port", "User"}

Digits == <<"1", "2", "3", "4">>

\* The value the k-th block of a file gives to a key: no two blocks of a
\* file give the same.
ValueAt(k, key) ==
    CASE key = "Hostname" -> <<"h", Digits[k]>>
      [] key = "Port" -> <<"2", Digits[k]>>
      [] key = "User" -> <<"u", Digits[k]>>

\* The blocks that set some of Hostname, Port and User.
AddrBlocks(k) ==
    {[pattern |-> pat, kv |-> [key \in ks |-> ValueAt(k, key)]] :
        pat \in CfgPatterns, ks \in SUBSET AddrKeys}

\* The files of n such blocks.
RECURSIVE AddrConfigsOfLen(_)
AddrConfigsOfLen(n) ==
    IF n = 0 THEN {<<>>}
    ELSE {Append(c, b) : c \in AddrConfigsOfLen(n - 1), b \in AddrBlocks(n)}

AddrConfigs == UNION {AddrConfigsOfLen(n) : n \in 0..MaxBlocks}

\* No file but the configuration file exists.
NoFiles == [q \in {} |-> "missing"]

InitCfg ==
    /\ OrchIdle
    /\ CopyIdle
    /\ RunIdle
    /\ PathIdle
    /\ MoreIdle
    /\ cfFile \in ConfigFiles
    /\ cfHomeOk \in BOOLEAN
    /\ cfKind \in ConfigKinds
    /\ cfBlocks \in IF cfKind = "config" /\ cfHomeOk /\ cfFile = <<"c">>
                    THEN AddrConfigs ELSE {<<>>}
    /\ cfAlias \in CfgAliases
    /\ cfAgent = "one"
    /\ cfFiles = NoFiles
    /\ cfUserOk \in BOOLEAN
    /\ cfPc = "idle"
    /\ cfParse = [config |-> NoConfig, err |-> Nil]
    /\ cfAddr = <<>>
    /\ cfHostKey = [callback |-> NoConfig, err |-> Nil]
    /\ cfClient = [config |-> NoConfig, err |-> Nil]
    /\ aliases = <<cfAlias>>
    /\ ConnReady

cfgInputs == <<cfFile, cfHomeOk, cfKind, cfBlocks, cfAlias, cfAgent, cfFiles, cfUserOk>>

\* ParseSSHConfig(configFile) is called.
ParseSSHConfigCall ==
    /\ cfPc = "idle"
    /\ nsgPc = "idle"
    /\ cfParse' = ParseSSHConfig(cfFile, cfHomeOk, cfKind, cfBlocks)
    /\ cfPc' = "parsed"
    /\ UNCHANGED <<cfgInputs, cfAddr, cfHostKey, cfClient>>
    /\ UNCHANGED <<connVars, exceptCfg>>

\* config.ConnectAddr(hostAlias) is called on the configuration returned.
ConnectAddrCall ==
    /\ cfPc = "parsed"
    /\ cfParse.err = Nil
    /\ cfAddr' = ConnectAddr(cfParse.config, cfAlias)
    /\ cfPc' = "addr"
    /\ UNCHANGED <<cfgInputs, cfParse, cfHostKey, cfClient>>
    /\ UNCHANGED <<connVars, exceptCfg>>

\* config.getHostKeyCallback(hostAlias) is called on the configuration returned.
GetHostKeyCallbackCall ==
    /\ cfPc = "parsed"
    /\ cfParse.err = Nil
    /\ cfHostKey' = getHostKeyCallback(cfParse.config, cfAlias, cfFiles)
    /\ cfPc' = "hostkey"
    /\ UNCHANGED <<cfgInputs, cfParse, cfAddr, cfClient>>
    /\ UNCHANGED <<connVars, exceptCfg>>

\* config.ClientConfig(hostAlias) is called.
ClientConfigCall ==
    /\ cfPc \in {"addr", "hostkey"}
    /\ cfClient' = ClientConfigOf(cfParse.config, cfAlias, cfAgent, cfFiles, cfUserOk)
    /\ cfPc' = "done"
    /\ UNCHANGED <<cfgInputs, cfParse, cfAddr, cfHostKey>>
    /\ UNCHANGED <<connVars, exceptCfg>>

\* NewSSHGroup is called with the alias and the configuration file.
GroupFromFileCall ==
    /\ cfPc = "idle"
    /\ NewSSHGroupCall

\* The call of ParseSSHConfig in NewSSHGroup.
GroupFromFileParse ==
    /\ cfPc = "idle"
    /\ ParseConfig(ParseSSHConfig(cfFile, cfHomeOk, cfKind, cfBlocks).err = Nil)

NextCfg ==
    \/ ParseSSHConfigCall
    \/ ConnectAddrCall
    \/ GetHostKeyCallbackCall
    \/ ClientConfigCall
    \/ GroupFromFileCall
    \/ GroupFromFileParse

SpecCfg == InitCfg /\ [][NextCfg]_vars

\* The source of the configuration is empty, missing or not well-formed.
BadSource == cfFile = <<>> \/ cfKind \in {"missing", "bad"}

Setting(blocks, alias, key) ==
    {k \in 1..Len(blocks) :
        Glob(blocks[k].pattern, alias) /\ key \in DOMAIN blocks[k].kv}

\* The value looked up for a key: that of the first block of the file that
\* matches the alias and sets the key, the default where there is none.
LookedUp(blocks, alias, key, default) ==
    IF Setting(blocks, alias, key) = {} THEN default
    ELSE LET k == CHOOSE i \in Setting(blocks, alias, key) :
                      \A j \in Setting(blocks, alias, key) : i <= j
         IN blocks[k].kv[key]

\* C16: the address returned for an alias is the Hostname looked up for it
\* (the alias itself when none is set), a colon and the Port looked up for it
\* (22 when none is set); the user of the client configuration returned for
\* it is the User looked up for it (the name of the current user of the
\* system when none is set).
C16_ResolvedAddressAndUser ==
    /\ cfPc \in {"addr", "done"} /\ cfAddr /= <<>> =>
          cfAddr = LookedUp(cfBlocks, cfAlias, "Hostname", cfAlias)
                      \o <<":">> \o LookedUp(cfBlocks, cfAlias, "Port", <<"2", "2">>)
    /\ cfPc = "done" /\ cfClient.err = Nil =>
          cfClient.config.User = LookedUp(cfBlocks, cfAlias, "User", CurrentUser)

\* An alias that only the wildcard block matches resolves to <alias>:22, and
\* to the user of that block.
C16_Witness ==
    /\ cfPc = "done"
    /\ cfAlias = <<"b">>
    /\ Len(cfBlocks) = 2
    /\ cfBlocks[1].pattern = <<"a">> /\ DOMAIN cfBlocks[1].kv = AddrKeys
    /\ cfBlocks[2].pattern = <<"*">> /\ DOMAIN cfBlocks[2].kv = {"User"}
    /\ cfAddr = <<"b", ":", "2", "2">>
    /\ cfClient.err = Nil
    /\ cfClient.config.User = <<"u", "2">>

(***************************************************************************)
(* Authentication and the host-key policy of an alias, for a file that     *)
(* has been decoded.                                                       *)
(***************************************************************************)
AuthPatterns == {<<"*">>, <<"a">>}

AuthAliases == {<<"a">>, <<"b">>}

\* What a block may set of IdentityFile, StrictHostKeyChecking and
\* UserKnownHostsFile.
AuthSettings ==
    LET none == [key \in {} |-> <<>>]
    IN {id @@ strict @@ known :
           id \in {none, "IdentityFile" :> <<"~", "/", "k">>},
           strict \in {none, "StrictHostKeyChecking" :> <<"n", "o">>,
                             "StrictHostKeyChecking" :> <<"y", "e", "s">>},
           known \in {none, "UserKnownHostsFile" :> <<"f", " ", "g">>}}

AuthBlocks == {[pattern |-> pat, kv |-> kv] : pat \in AuthPatterns, kv \in AuthSettings}

RECURSIVE AuthConfigsOfLen(_)
AuthConfigsOfLen(n) ==
    IF n = 0 THEN {<<>>}
    ELSE {Append(c, b) : c \in AuthConfigsOfLen(n - 1), b \in AuthBlocks}

AuthConfigs == UNION {AuthConfigsOfLen(n) : n \in 0..MaxAuthBlocks}

\* The files a resolution may look at, and what each may be: a private key,
\* a known_hosts file, or a file that is neither.
AuthFiles ==
    {(<<"/", "h", "/", "k">> :> key) @@ (<<"f">> :> f) @@ (<<"g">> :> g)
        @@ (expand(SplitSpaces(Default("UserKnownHostsFile"))[1]) :> d) :
        key \in {"missing", "garbage", "key"},
        f \in {"missing", "garbage", "hosts"},
        g \in {"missing", "hosts"},
        d \in {"missing", "hosts"}}

AgentStates == {"unavailable", "empty", "one"}

InitAuth ==
    /\ OrchIdle
    /\ ConnIdle
    /\ CopyIdle
    /\ RunIdle
    /\ PathIdle
    /\ MoreIdle
    /\ cfFile = <<"c">>
    /\ cfHomeOk = TRUE
    /\ cfKind = "config"
    /\ cfBlocks \in AuthConfigs
    /\ cfAlias \in AuthAliases
    /\ cfAgent \in AgentStates
    /\ cfFiles \in AuthFiles
    /\ cfUserOk \in BOOLEAN
    /\ cfPc = "parsed"
    /\ cfParse = ParseSSHConfig(cfFile, cfHomeOk, cfKind, cfBlocks)
    /\ cfAddr = <<>>
    /\ cfHostKey = [callback |-> NoConfig, err |-> Nil]
    /\ cfClient = [config |-> NoConfig, err |-> Nil]

NextAuth ==
    \/ GetHostKeyCallbackCall
    \/ ClientConfigCall

SpecAuth == InitAuth /\ [][NextAuth]_vars

\* Neither the agent nor the IdentityFile looked up for the alias yields a
\* signer.
NoSigner ==
    /\ cfAgent /= "one"
    /\ KindAt(cfFiles, expand(LookedUp(cfBlocks, cfAlias, "IdentityFile",
                                       Default("IdentityFile")))) /= "key"

\* An error names the alias.
Names(err, alias) == "alias" \in DOMAIN err /\ err.alias = alias

\* C17, as claimed: ClientConfig returns an error exactly when no signer is
\* obtained.
C17_ErrorIffNoSigner ==
    cfPc = "done" => (cfClient.err /= Nil <=> NoSigner)

\* C17, amended: without a signer ClientConfig returns an error that names
\* the alias and no client configuration; with a signer it returns an error
\* only when the host-key policy of the alias cannot be built or the current
\* user is needed and cannot be determined, whatever the agent and the
\* identity file are.
C17_NoSignerIsError ==
    cfPc = "done" =>
        /\ NoSigner =>
              /\ cfClient.err /= Nil
              /\ Names(cfClient.err, cfAlias)
              /\ cfClient.config = NoConfig
        /\ cfClient.err /= Nil =>
              \/ NoSigner
              \/ cfHostKey.err /= Nil
              \/ ~cfUserOk
        /\ cfClient.err = Nil => cfClient.config.Auth /= <<>>

C17_Witness ==
    /\ cfPc = "done"
    /\ cfAgent = "unavailable"
    /\ LookedUp(cfBlocks, cfAlias, "IdentityFile", <<>>) = <<"~", "/", "k">>
    /\ cfFiles[<<"/", "h", "/", "k">>] = "garbage"
    /\ cfHostKey.err = Nil
    /\ cfClient.err = ErrFor("iago: no valid authentication methods found for", cfAlias)

\* The paths of UserKnownHostsFile looked up for the alias, expanded, that
\* exist.
ExistingKnownHosts ==
    LET paths == SplitSpaces(LookedUp(cfBlocks, cfAlias, "UserKnownHostsFile",
                                      Default("UserKnownHostsFile")))
    IN SelectSeq([k \in 1..Len(paths) |-> expand(paths[k])],
                 LAMBDA file : KindAt(cfFiles, file) /= "missing")

\* StrictHostKeyChecking looked up for the alias.
StrictLookedUp ==
    LookedUp(cfBlocks, cfAlias, "StrictHostKeyChecking", Default("StrictHostKeyChecking"))

MaxPathLen == 3

PathChars == {"/", ".", "a"}

ErrNotAbsolute == Leaf("not an absolute path")

ErrNotRelative == Leaf("not a relative path")

\* fmt.Errorf("'%s': %w", path, err)
WrapPath(path, err) == [kind |-> "wrap", msg |-> path, Err |-> err]

\* filepath.VolumeName
VolumeName(path) == <<>>

\* isAbs
isAbs(path) ==
    IF path /= <<>> /\ Head(path) = "/" THEN TRUE
    ELSE LET l == Len(VolumeName(path))
             rest == SubSeq(path, l + 1, Len(path))
         IN IF l = 0 THEN FALSE
            ELSE IF rest = <<>> THEN FALSE
            ELSE Head(rest) = "/"

\* CleanPath
CleanPath(path) == Clean(path)

\* NewPath does not look at its second argument.
NewPathAnyPath(prefix, path) ==
    IF ~isAbs(prefix)
    THEN [p |-> Path(<<>>, <<>>), err |-> WrapPath(prefix, ErrNotAbsolute)]
    ELSE [p |-> Path(CleanPath(prefix), CleanPath(path)), err |-> Nil]

\* NewPath
NewPath(prefix, path) ==
    IF ~isAbs(prefix)
    THEN [p |-> Path(<<>>, <<>>), err |-> WrapPath(prefix, ErrNotAbsolute)]
    ELSE IF isAbs(path)
    THEN [p |-> Path(<<>>, <<>>), err |-> WrapPath(path, ErrNotRelative)]
    ELSE [p |-> Path(CleanPath(prefix), CleanPath(path)), err |-> Nil]

\* strings.TrimPrefix
TrimPrefix(s, prefix) ==
    IF Len(s) >= Len(prefix) /\ SubSeq(s, 1, Len(prefix)) = prefix
    THEN SubSeq(s, Len(prefix) + 1, Len(s))
    ELSE s

\* NewPathFromAbs; filepath.ToSlash changes nothing where the separator is
\* the slash.
NewPathFromAbs(path) ==
    IF ~isAbs(path)
    THEN [p |-> Path(<<>>, <<>>), err |-> ErrNotAbsolute]
    ELSE LET prefix == VolumeName(path) \o <<"/">>
         IN [p |-> Path(prefix, TrimPrefix(path, prefix)), err |-> Nil]

\* Path.String
String(p) == p.prefix \o p.path

InitPath ==
    /\ OrchIdle
    /\ ConnIdle
    /\ CopyIdle
    /\ RunIdle
    /\ CfgIdle
    /\ MoreIdle
    /\ npPrefix \in StringsUpTo(PathChars, MaxPathLen)
    /\ npPath \in StringsUpTo(PathChars, MaxPathLen)
    /\ npPc = "idle"
    /\ npRet = [p |-> <<>>, err |-> Nil]
    /\ npString = <<>>
    /\ npAbs = <<>>

\* NewPath(prefix, path) is called.
NewPathCall ==
    /\ npPc = "idle"
    /\ npRet' = NewPath(npPrefix, npPath)
    /\ npPc' = "made"
    /\ UNCHANGED <<npPrefix, npPath, npString, npAbs, exceptPath>>

\* String is called on the Path that NewPath returned.
StringCall ==
    /\ npPc = "made"
    /\ npRet.err = Nil
    /\ npString' = String(npRet.p)
    /\ npPc' = "shown"
    /\ UNCHANGED <<npPrefix, npPath, npRet, npAbs, exceptPath>>

\* NewPathFromAbs(path) is called, with the first string for its path.
NewPathFromAbsCall ==
    /\ npAbs = <<>>
    /\ npAbs' = <<NewPathFromAbs(npPrefix)>>
    /\ UNCHANGED <<npPrefix, npPath, npPc, npRet, npString, exceptPath>>

NextPath ==
    \/ NewPathCall
    \/ StringCall
    \/ NewPathFromAbsCall

SpecPath == InitPath /\ [][NextPath]_vars

\* A string names an absolute path: it starts with the separator.
StartsAtRoot(str) == Len(str) > 0 /\ str[1] = "/"

\* C19: NewPath returns an error and the zero Path when the prefix is not
\* absolute (the empty prefix included, whatever the path) and when the path
\* is absolute; it returns no error for an absolute prefix with a relative
\* path.
C19_NewPathChecks ==
    npPc /= "idle" =>
        /\ ~StartsAtRoot(npPrefix) =>
              (Is(npRet.err, ErrNotAbsolute) /\ npRet.p = Path(<<>>, <<>>))
        /\ (StartsAtRoot(npPrefix) /\ StartsAtRoot(npPath)) =>
              (Is(npRet.err, ErrNotRelative) /\ npRet.p = Path(<<>>, <<>>))
        /\ (StartsAtRoot(npPrefix) /\ ~StartsAtRoot(npPath)) => npRet.err = Nil

C19_Witness ==
    /\ npPc = "made"
    /\ npPrefix = <<"/", "a">>
    /\ npPath = <<"/", "a">>
    /\ npRet.err /= Nil

\* C20: the string of a Path made by NewPath(prefix, path) is the prefix and
\* the path joined by one separator: /a with a gives /a/a.
C20_JoinedBySeparator ==
    npPc = "shown" => npString = PathJoin(npPrefix, npPath)

\* The path component of a Path: relative and in the form Clean gives; the
\* empty string, the root of the prefix itself, has nothing to remove.
RelativeAndClean(str) == ~StartsAtRoot(str) /\ (str = <<>> \/ Clean(str) = str)

WellFormed(p) == RelativeAndClean(p.path) /\ StartsAtRoot(p.prefix)

\* C36: every Path returned without an error by NewPath or NewPathFromAbs
\* has a path component that is relative and normalized (no separator in
\* front, no . or .. that Clean would remove) and an absolute prefix.
C36_PathsWellFormed ==
    /\ (npPc /= "idle" /\ npRet.err = Nil) => WellFormed(npRet.p)
    /\ (npAbs /= <<>> /\ npAbs[1].err = Nil) => WellFormed(npAbs[1].p)

(***************************************************************************)
(* Permissions.  A Perm is the zero value or made by NewPerm; WithDirPerm  *)
(* sets the receiver and returns a copy of it, so one value is kept.       *)
(***************************************************************************)
PermModes == {0, 384, 420, 448, 493}

ZeroPerm == [perm |-> 0, haveFilePerm |-> FALSE, dirPerm |-> 0, haveDirPerm |-> FALSE]

WithDirPerm(p, dirPerm) == [p EXCEPT !.dirPerm = dirPerm, !.haveDirPerm = TRUE]

InitPerm ==
    /\ OrchIdle
    /\ ConnIdle
    /\ CopyIdle
    /\ RunIdle
    /\ CfgIdle
    /\ PathIdle
    /\ MoreIdle

\* var p Perm, or the Perm field of an Upload or Download left unset.
ZeroPermCall ==
    /\ pmPc = "idle"
    /\ pm' = ZeroPerm
    /\ pmPc' = "made"
    /\ UNCHANGED <<pmSupplied, pmDirSet, pmGotFile, pmGotDir, exceptPerm>>

NewPermCall(perm) ==
    /\ pmPc = "idle"
    /\ pm' = NewPerm(perm)
    /\ pmSupplied' = <<perm>>
    /\ pmPc' = "made"
    /\ UNCHANGED <<pmDirSet, pmGotFile, pmGotDir, exceptPerm>>

WithDirPermCall(dirPerm) ==
    /\ pmPc = "made"
    /\ pm' = WithDirPerm(pm, dirPerm)
    /\ pmDirSet' = <<dirPerm>>
    /\ pmGotDir' = <<>>
    /\ UNCHANGED <<pmPc, pmSupplied, pmGotFile, exceptPerm>>

GetFilePermCall ==
    /\ pmPc = "made"
    /\ pmGotFile' = <<GetFilePerm(pm)>>
    /\ UNCHANGED <<pm, pmPc, pmSupplied, pmDirSet, pmGotDir, exceptPerm>>

GetDirPermCall ==
    /\ pmPc = "made"
    /\ pmGotDir' = <<GetDirPerm(pm)>>
    /\ UNCHANGED <<pm, pmPc, pmSupplied, pmDirSet, pmGotFile, exceptPerm>>

NextPerm ==
    \/ ZeroPermCall
    \/ \E perm \in PermModes : NewPermCall(perm)
    \/ \E dirPerm \in PermModes : WithDirPermCall(dirPerm)
    \/ GetFilePermCall
    \/ GetDirPermCall

SpecPerm == InitPerm /\ [][NextPerm]_vars

\* C21: GetFilePerm is the supplied file mode, or 0644 when none was
\* supplied; GetDirPerm is the mode set with WithDirPerm when one was set,
\* otherwise the supplied file mode, otherwise 0755; a GetFilePerm result
\* obtained before WithDirPerm is the one obtained after it.
C21_PermDefaults ==
    /\ pmGotFile /= <<>> =>
          pmGotFile = (IF pmSupplied /= <<>> THEN pmSupplied ELSE <<DefaultFilePerm>>)
    /\ pmGotDir /= <<>> =>
          pmGotDir = (IF pmDirSet /= <<>> THEN pmDirSet
                      ELSE IF pmSupplied /= <<>> THEN pmSupplied
                      ELSE <<DefaultDirPerm>>)
    /\ pmPc = "made" =>
          GetFilePerm(pm) = (IF pmSupplied /= <<>> THEN pmSupplied[1] ELSE DefaultFilePerm)

C21_Witness ==
    /\ pmSupplied = <<384>>
    /\ pmDirSet = <<448>>
    /\ pmGotFile = <<384>>
    /\ pmGotDir = <<448>>

(***************************************************************************)
(* Transfers.  One host; an Upload copies s of the local file system to d  *)
(* of the host's, a Download copies d of the host's file system to e of    *)
(* the local one.  Both file systems may hold entries beforehand, some of  *)
(* them in the way of the copy.  Local files are created with the mode     *)
(* asked for (no bit of it is in the umask of the process).                *)
(***************************************************************************)
MaxTransfers == 2

OtherPerm == 384

OtherMode == 511

\* What may lie at path s of the source: nothing, a file, a directory with
\* the directory a (holding the file f) and the files d and f.
TreesAt(s, data) ==
    { EmptyFS,
      (s :> File(data)),
      (s :> Dir) @@ (s \o <<"/", "a">> :> Dir) @@ (s \o <<"/", "a", "/", "f">> :> File(data))
                 @@ (s \o <<"/", "d">> :> File(data + 1)) @@ (s \o <<"/", "f">> :> File(data + 2)) }

Obstacle(data) == [kind |-> "file", data |-> data, mode |-> OtherMode, by |-> 0]

\* What may lie in the way at the destination d of a copy.
ObstaclesAt(d) ==
    { EmptyFS,
      (d :> Obstacle(7)),
      (d :> Dir) @@ (d \o <<"/", "a">> :> Obstacle(7)),
      (d :> Dir) @@ (d \o <<"/", "f">> :> Dir) }

\* The local file system: the source at s, and at the destination of a
\* Download from host a nothing, a file e.a, or entries below e/a.
LocalTrees ==
    { src @@ obst : src \in TreesAt(<<"s">>, 1),
                    obst \in { EmptyFS,
                                (<<"e", ".", "a">> :> Obstacle(7)),
                                (<<"e">> :> Obstacle(7)),
                                (<<"e">> :> Dir) @@ (<<"e", "/", "a">> :> Dir) @@ (<<"e", "/", "a", "/", "f">> :> Dir) } }

RemoteTrees == TreesAt(<<"d">>, 4) \cup ObstaclesAt(<<"d">>)

InitXfer ==
    /\ OrchIdle
    /\ ConnIdle
    /\ RunIdle
    /\ CfgIdle
    /\ PathIdle
    /\ PermIdle
    /\ SftpIdle
    /\ ResIdle
    /\ LateIdle
    /\ xfLog = <<>>
    /\ cpNames = <<<<"a">>>>
    /\ cpFetch = FALSE
    /\ cpSrc = Path(<<"/", "l">>, <<"s">>)
    /\ cpDest = Path(<<"/", "r">>, <<"d">>)
    /\ cpPerm \in {ZeroPerm, NewPerm(OtherPerm)}
    /\ localFS \in LocalTrees
    /\ remoteFS \in [CopyHosts -> RemoteTrees]
    /\ cpDone = [h \in CopyHosts |-> FALSE]
    /\ cpErr = [h \in CopyHosts |-> Nil]
    /\ cpWrote = [h \in CopyHosts |-> {}]

Logged(fetch, h, src, dest, from, to, r) ==
    [fetch |-> fetch, h |-> h, src |-> src, dest |-> dest, from |-> from,
     before |-> to, after |-> r.fs, err |-> r.err]

\* Upload{Src: /l/s, Dest: /r/d, Perm: cpPerm}.Apply on host h.
UploadCall(h) ==
    LET src == Path(<<"/", "l">>, <<"s">>)
        dest == Path(<<"/", "r">>, <<"d">>)
        r == Apply(FALSE, src, dest, cpPerm, localFS, remoteFS[h], h)
    IN /\ Len(xfLog) < MaxTransfers
       /\ cpFetch' = FALSE
       /\ cpSrc' = src
       /\ cpDest' = dest
       /\ remoteFS' = [remoteFS EXCEPT ![h] = r.fs]
       /\ cpErr' = [cpErr EXCEPT ![h] = r.err]
       /\ cpDone' = [cpDone EXCEPT ![h] = TRUE]
       /\ cpWrote' = [cpWrote EXCEPT ![h] = WrittenBy(r.fs, h)]
       /\ xfLog' = Append(xfLog, Logged(FALSE, h, src, dest, localFS, remoteFS[h], r))
       /\ UNCHANGED <<cpNames, cpPerm, localFS, exceptXfer>>

\* Download{Src: /r/d, Dest: /l/e, Perm: cpPerm}.Apply on host h.
DownloadCall(h) ==
    LET src == Path(<<"/", "r">>, <<"d">>)
        dest == Path(<<"/", "l">>, <<"e">>)
        r == Apply(TRUE, src, dest, cpPerm, remoteFS[h], localFS, h)
    IN /\ Len(xfLog) < MaxTransfers
       /\ cpFetch' = TRUE
       /\ cpSrc' = src
       /\ cpDest' = dest
       /\ localFS' = r.fs
       /\ cpErr' = [cpErr EXCEPT ![h] = r.err]
       /\ cpDone' = [cpDone EXCEPT ![h] = TRUE]
       /\ cpWrote' = [cpWrote EXCEPT ![h] = WrittenBy(r.fs, h)]
       /\ xfLog' = Append(xfLog, Logged(TRUE, h, src, dest, remoteFS[h], localFS, r))
       /\ UNCHANGED <<cpNames, cpPerm, remoteFS, exceptXfer>>

NextXfer ==
    \/ \E h \in CopyHosts : UploadCall(h)
    \/ \E h \in CopyHosts : DownloadCall(h)

SpecXfer == InitXfer /\ [][NextXfer]_vars

\* Calls i and i + 1 are an Upload of a file and the Download of what it
\* wrote, on the same host, both without error.
RoundTrip(i) ==
    /\ i + 1 <= Len(xfLog)
    /\ ~xfLog[i].fetch /\ xfLog[i + 1].fetch
    /\ xfLog[i].h = xfLog[i + 1].h
    /\ xfLog[i].dest = xfLog[i + 1].src
    /\ xfLog[i].err = Nil /\ xfLog[i + 1].err = Nil
    /\ ~Stat(xfLog[i].from, xfLog[i].src.path).isDir

\* The file a Download of a file on host h wrote.
Downloaded(e) == DestFor(TRUE, e.dest.path, FALSE, cpNames[e.h])

C23_MissingSourceNoWrite ==
    \A i \in 1..Len(xfLog) :
        Stat(xfLog[i].from, xfLog[i].src.path).err /= Nil =>
            /\ xfLog[i].err /= Nil
            /\ xfLog[i].after = xfLog[i].before

C23_Witness ==
    /\ Len(xfLog) = 2
    /\ ~xfLog[1].fetch /\ xfLog[2].fetch
    /\ xfLog[1].from = xfLog[2].before
    /\ xfLog[1].err /= Nil
    /\ xfLog[1].before = EmptyFS
    /\ xfLog[2].err /= Nil
    /\ xfLog[2].before /= EmptyFS
    /\ <<"s">> \notin DOMAIN xfLog[1].from
    /\ <<"d">> \notin DOMAIN xfLog[2].from

\* The entries of the tree at src, the directory itself first (as <<>>) and
\* then the entries of each directory in the order of their names, each
\* directory before what it holds: the order in which copyDir reaches them.
RECURSIVE Walk(_, _, _)
RECURSIVE WalkNames(_, _, _, _, _)
WalkNames(fsys, src, rel, names, k) ==
    IF k > Len(names) THEN <<>>
    ELSE Walk(fsys, src, PathJoin(rel, names[k]))
             \o WalkNames(fsys, src, rel, names, k + 1)

Walk(fsys, src, rel) ==
    IF fsys[PathJoin(src, rel)].kind = "file" THEN <<rel>>
    ELSE <<rel>> \o WalkNames(fsys, src, rel, ReadDir(fsys, PathJoin(src, rel)).names, 1)

\* Call e copied a directory and failed.
FailedDirCopy(e) ==
    /\ Stat(e.from, e.src.path).err = Nil
    /\ Stat(e.from, e.src.path).isDir
    /\ e.err /= Nil

DirCopied(e) ==
    /\ Stat(e.from, e.src.path).err = Nil
    /\ Stat(e.from, e.src.path).isDir
    /\ e.err = Nil

ErrInvalid == Leaf("invalid argument")

ErrNotExist == Leaf("file does not exist")

EISDIR == Leaf("is a directory")

ClientError == Leaf("sftp")

PathErr(op, name, err) == [kind |-> "PathError", op |-> op, path |-> name, err |-> err]

LinkError(op, old, new, err) ==
    [kind |-> "LinkError", op |-> op, old |-> old, new |-> new, err |-> err]

\* wrapper.prefix
SftpPrefix == sfPrefix

\* The directory in which the server starts a session: the home of the user.
\* A name that is not absolute is resolved against it by the server.
ServerHome == <<"/", "h">>

\* The mode the server gives to what it creates.
ServerMode == 509

Resolve(p) == IF p /= <<>> /\ p[1] = "/" THEN Clean(p) ELSE Clean(ServerHome \o Slash \o p)

DirOf(p) == Clean(p \o <<"/", ".", ".">>)

Exists(remote, p) == p = Slash \/ p \in DOMAIN remote

IsDirOn(remote, p) == p = Slash \/ (p \in DOMAIN remote /\ remote[p].kind = "dir")

\* The server with the entry at p made or its mode changed.
WithEntry(remote, p, kind, mode) ==
    [q \in DOMAIN remote \cup {p} |-> IF q = p THEN [kind |-> kind, mode |-> mode] ELSE remote[q]]

ModeCall(m, path, mode) == [m |-> m, args |-> <<path>>, mode |-> mode]

ClientCall(m, args) == [m |-> m, args |-> args]

fullNameAbsOnly(op, name) ==
    IF name /= <<>> /\ name[1] = "/"
    THEN [full |-> <<>>, err |-> PathErr(op, name, ErrInvalid)]
    ELSE [full |-> SftpPrefix \o Slash \o name, err |-> Nil]

fullName(op, name) ==
    IF ~ValidPath(name)
    THEN [full |-> <<>>, err |-> PathErr(op, name, ErrInvalid)]
    ELSE [full |-> SftpPrefix \o Slash \o name, err |-> Nil]

\* Open, Stat, ReadDir, Chmod, Chown, Chtimes, Remove and Truncate: the full
\* name, one call of the client's method of the same name, and its error
\* as a PathError.  What these calls do on the server is not followed.
OneCallOps == {"open", "stat", "readdir", "chmod", "chown", "chtimes", "remove", "truncate"}

OneCall(op, name, ok) ==
    LET f == fullName(op, name)
    IN IF f.err /= Nil THEN [err |-> f.err, calls |-> <<>>, remote |-> sfRemote]
       ELSE [err |-> IF ok THEN Nil ELSE PathErr(op, name, ClientError),
             calls |-> <<ClientCall(op, <<f.full>>)>>,
             remote |-> sfRemote]

\* Mkdir: client.Mkdir(full), then client.Chmod(name, perm).  The server
\* makes the directory when nothing is at full and its parent is a
\* directory, and changes the mode of what is at name, when something is.
Mkdir(name, perm, mkdirOk, chmodOk) ==
    LET f == fullName("mkdir", name)
        target == Resolve(f.full)
        other == Resolve(name)
        mkdirCall == ClientCall("mkdir", <<f.full>>)
        made == mkdirOk /\ ~Exists(sfRemote, target) /\ IsDirOn(sfRemote, DirOf(target))
        remote1 == WithEntry(sfRemote, target, "dir", ServerMode)
    IN IF f.err /= Nil THEN [err |-> f.err, calls |-> <<>>, remote |-> sfRemote]
       ELSE IF ~made
       THEN [err |-> PathErr("mkdir", name, ClientError), calls |-> <<mkdirCall>>,
             remote |-> sfRemote]
       ELSE IF ~chmodOk \/ other \notin DOMAIN remote1
       THEN [err |-> PathErr("mkdir", name,
                             IF other \notin DOMAIN remote1 THEN ErrNotExist ELSE ClientError),
             calls |-> <<mkdirCall, ModeCall("chmod", name, perm)>>,
             remote |-> remote1]
       ELSE [err |-> Nil,
             calls |-> <<mkdirCall, ModeCall("chmod", name, perm)>>,
             remote |-> WithEntry(remote1, other, remote1[other].kind, perm)]

\* What client.Stat(full) answers in OpenFile.
StatAnswer(target, statOk) ==
    IF ~statOk THEN "error"
    ELSE IF ~Exists(sfRemote, target) THEN "notexist"
    ELSE IF IsDirOn(sfRemote, target) THEN "dir"
    ELSE "file"

OpenFileChmodAlways(name, perm, statOk, openOk, chmodOk) ==
    LET f == fullName("open", name)
        target == Resolve(f.full)
        stat == StatAnswer(target, statOk)
        statCall == [m |-> "stat", args |-> <<f.full>>, answer |-> stat]
        openCall == ClientCall("openfile", <<f.full>>)
        opened == /\ openOk
                  /\ ~IsDirOn(sfRemote, target)
                  /\ IsDirOn(sfRemote, DirOf(target))
        remote1 == IF Exists(sfRemote, target) THEN sfRemote
                   ELSE WithEntry(sfRemote, target, "file", ServerMode)
    IN IF f.err /= Nil THEN [err |-> f.err, calls |-> <<>>, remote |-> sfRemote]
       ELSE IF stat = "dir"
       THEN [err |-> PathErr("open", name, EISDIR), calls |-> <<statCall>>,
             remote |-> sfRemote]
       ELSE IF ~opened
       THEN [err |-> PathErr("open", name, ClientError), calls |-> <<statCall, openCall>>,
             remote |-> sfRemote]
       ELSE [err |-> IF chmodOk THEN Nil ELSE ClientError,
             calls |-> <<statCall, openCall, ModeCall("file.chmod", f.full, perm)>>,
             remote |-> IF chmodOk THEN WithEntry(remote1, target, "file", perm)
                        ELSE remote1]

\* OpenFile: client.Stat(full); a directory is an error; the file is opened
\* with client.OpenFile(full, flag), the flag holding O_CREATE as in copyFile,
\* and when Stat said that it does not exist its mode is set with
\* file.Chmod(perm), whose error is returned as it is.
OpenFile(name, perm, statOk, openOk, chmodOk) ==
    LET f == fullName("open", name)
        target == Resolve(f.full)
        stat == StatAnswer(target, statOk)
        statCall == [m |-> "stat", args |-> <<f.full>>, answer |-> stat]
        openCall == ClientCall("openfile", <<f.full>>)
        opened == /\ openOk
                  /\ ~IsDirOn(sfRemote, target)
                  /\ IsDirOn(sfRemote, DirOf(target))
        remote1 == IF Exists(sfRemote, target) THEN sfRemote
                   ELSE WithEntry(sfRemote, target, "file", ServerMode)
    IN IF f.err /= Nil THEN [err |-> f.err, calls |-> <<>>, remote |-> sfRemote]
       ELSE IF stat = "dir"
       THEN [err |-> PathErr("open", name, EISDIR), calls |-> <<statCall>>,
             remote |-> sfRemote]
       ELSE IF ~opened
       THEN [err |-> PathErr("open", name, ClientError), calls |-> <<statCall, openCall>>,
             remote |-> sfRemote]
       ELSE IF stat /= "notexist"
       THEN [err |-> Nil, calls |-> <<statCall, openCall>>, remote |-> remote1]
       ELSE [err |-> IF chmodOk THEN Nil ELSE ClientError,
             calls |-> <<statCall, openCall, ModeCall("file.chmod", f.full, perm)>>,
             remote |-> IF chmodOk THEN WithEntry(remote1, target, "file", perm)
                        ELSE remote1]

\* Rename and Symlink: the full names of both paths, then one call.
TwoPathOps == {"rename", "symlink"}

TwoPath(op, old, new, ok) ==
    LET o == fullName(op, old)
        n == fullName(op, new)
    IN IF o.err /= Nil THEN [err |-> o.err, calls |-> <<>>, remote |-> sfRemote]
       ELSE IF n.err /= Nil THEN [err |-> n.err, calls |-> <<>>, remote |-> sfRemote]
       ELSE [err |-> IF ok THEN Nil ELSE LinkError(op, old, new, ClientError),
             calls |-> <<ClientCall(op, <<o.full, n.full>>)>>,
             remote |-> sfRemote]

\* The names the operations are called with.
SftpNames == StringsUpTo(PathChars, MaxPathLen)

\* The roots: / as DialSSH gives it, and the home of the user.
SftpPrefixes == {Slash, ServerHome}

SftpPerms == {384, 448}

Entry(kind, mode) == [kind |-> kind, mode |-> mode]

\* What may be on the server: the home; a file a in it; a directory a at /;
\* a file a at / with a directory a in the home.
ServerTrees ==
    LET home == (ServerHome :> Entry("dir", 493))
    IN { home,
         home @@ (ServerHome \o <<"/", "a">> :> Entry("file", 420)),
         home @@ (<<"/", "a">> :> Entry("dir", 493)),
         home @@ (<<"/", "a">> :> Entry("file", 420))
              @@ (ServerHome \o <<"/", "a">> :> Entry("dir", 493)) }

InitSftp ==
    /\ OrchIdle
    /\ ConnIdle
    /\ CopyIdle
    /\ RunIdle
    /\ CfgIdle
    /\ PathIdle
    /\ PermIdle
    /\ XferIdle
    /\ ResIdle
    /\ LateIdle
    /\ sfOp = "none"
    /\ sfNames = <<>>
    /\ sfErr = Nil
    /\ sfCalls = <<>>
    /\ sfPrefix \in SftpPrefixes
    /\ sfPerm = <<>>
    /\ sfRemote \in ServerTrees
    /\ sfAfter = sfRemote

\* The wrapper keeps no state between calls (client and prefix are set once
\* by New), so one call is followed from the start.
Returned(op, names, perm, r) ==
    /\ sfOp = "none"
    /\ sfOp' = op
    /\ sfNames' = names
    /\ sfPerm' = perm
    /\ sfErr' = r.err
    /\ sfCalls' = r.calls
    /\ sfAfter' = r.remote
    /\ UNCHANGED <<sfPrefix, sfRemote, exceptSftp>>

OneCallOp(op, name, ok) == Returned(op, <<name>>, <<>>, OneCall(op, name, ok))

MkdirCall(name, perm, mkdirOk, chmodOk) ==
    Returned("mkdir", <<name>>, <<perm>>, Mkdir(name, perm, mkdirOk, chmodOk))

OpenFileCall(name, perm, statOk, openOk, chmodOk) ==
    Returned("openfile", <<name>>, <<perm>>, OpenFile(name, perm, statOk, openOk, chmodOk))

TwoPathOp(op, old, new, ok) == Returned(op, <<old, new>>, <<>>, TwoPath(op, old, new, ok))

\* One operation is called; no other follows it.
NextSftp ==
    \/ /\ sfOp = "none"
       /\ \E op \in OneCallOps, name \in SftpNames, ok \in BOOLEAN :
             OneCallOp(op, name, ok)
    \/ /\ sfOp = "none"
       /\ \E name \in SftpNames, perm \in SftpPerms, mkdirOk, chmodOk \in BOOLEAN :
             MkdirCall(name, perm, mkdirOk, chmodOk)
    \/ /\ sfOp = "none"
       /\ \E name \in SftpNames, perm \in SftpPerms, statOk, openOk, chmodOk \in BOOLEAN :
             OpenFileCall(name, perm, statOk, openOk, chmodOk)
    \/ /\ sfOp = "none"
       /\ \E op \in TwoPathOps, old, new \in SftpNames, ok \in BOOLEAN :
             TwoPathOp(op, old, new, ok)

SpecSftp == InitSftp /\ [][NextSftp]_vars

\* C25: an operation called with a name that is not a valid path (for
\* Rename and Symlink: either name) returns a PathError of ErrInvalid and has
\* made no call on the client.
C25_InvalidNameNoRemoteCall ==
    (sfOp /= "none" /\ \E k \in 1..Len(sfNames) : ~ValidPath(sfNames[k])) =>
        /\ sfCalls = <<>>
        /\ sfErr /= Nil
        /\ sfErr.kind = "PathError"
        /\ sfErr.err = ErrInvalid
        /\ \E k \in 1..Len(sfNames) : ~ValidPath(sfNames[k]) /\ sfErr.path = sfNames[k]

\* Rename of a valid name to one that leaves the root.
C25_Witness ==
    /\ sfOp = "rename"
    /\ sfNames = <<<<"a">>, <<".", ".">>>>
    /\ sfErr = PathErr("rename", <<".", ".">>, ErrInvalid)
    /\ sfCalls = <<>>

\* The full name of the name the operation was called with, and where the
\* server has it.
SfFull == sfPrefix \o Slash \o sfNames[1]

SfTarget == Resolve(SfFull)

\* C31: OpenFile with a valid name first calls Stat on the full name.  When
\* Stat answers that a directory is there, OpenFile returns an is-a-directory
\* error and has made no other call.  When Stat answers that nothing is
\* there, it opens the file and, once opened, sets the mode asked for with
\* Chmod before it returns; the file it returns without error has that mode.
\* When Stat answers that a file is there, the file is opened, no Chmod is
\* called and the mode of the file is as before.
C31_OpenFileStatFirst ==
    (sfOp = "openfile" /\ ValidPath(sfNames[1])) =>
        /\ Len(sfCalls) >= 1
        /\ sfCalls[1].m = "stat"
        /\ sfCalls[1].args = <<SfFull>>
        /\ sfCalls[1].answer = "dir" =>
              /\ sfErr = PathErr("open", sfNames[1], EISDIR)
              /\ Len(sfCalls) = 1
              /\ sfAfter = sfRemote
        /\ sfCalls[1].answer = "notexist" =>
              /\ Len(sfCalls) >= 2
              /\ sfCalls[2] = ClientCall("openfile", <<SfFull>>)
              /\ SfTarget \in DOMAIN sfAfter =>
                    /\ Len(sfCalls) = 3
                    /\ sfCalls[3] = ModeCall("file.chmod", SfFull, sfPerm[1])
              /\ sfErr = Nil => sfAfter[SfTarget] = Entry("file", sfPerm[1])
        /\ sfCalls[1].answer = "file" =>
              /\ sfCalls = <<sfCalls[1], ClientCall("openfile", <<SfFull>>)>>
              /\ sfAfter[SfTarget].mode = sfRemote[SfTarget].mode

\* OpenFile made a/a below the directory /a with the mode asked for.
C31_Witness ==
    /\ sfOp = "openfile"
    /\ sfPrefix = Slash
    /\ sfNames = <<<<"a", "/", "a">>>>
    /\ sfErr = Nil
    /\ <<"/", "a", "/", "a">> \notin DOMAIN sfRemote
    /\ sfAfter[<<"/", "a", "/", "a">>] = Entry("file", 384)
    /\ Len(sfCalls) = 3

\* C32: when Mkdir(name, perm) has returned no error, the directory it made
\* at the full name has the mode perm, and the Chmod call was made on that
\* full name.
C32_MkdirModeOnFullPath ==
    (sfOp = "mkdir" /\ sfErr = Nil) =>
        /\ SfTarget \in DOMAIN sfAfter
        /\ sfAfter[SfTarget] = Entry("dir", sfPerm[1])
        /\ sfCalls[2].args = <<SfFull>>

\* The name of the operation as the errors of sftpFS give it.
OpName(op) == IF op = "openfile" THEN "open" ELSE op

\* C37: every error an operation returns is a PathError (for Rename and
\* Symlink a LinkError) that holds the name of the operation and the name or
\* names it was called with.
C37_ErrorsCarryOpAndPath ==
    (sfOp /= "none" /\ sfErr /= Nil) =>
        /\ sfErr.kind \in {"PathError", "LinkError"}
        /\ sfErr.op = OpName(sfOp)
        /\ IF sfErr.kind = "PathError"
           THEN \E k \in 1..Len(sfNames) : sfErr.path = sfNames[k]
           ELSE sfErr.old = sfNames[1] /\ sfErr.new = sfNames[2]

(***************************************************************************)
(* Resolving again.  A configuration is parsed once; ConnectAddr and       *)
(* ClientConfig are then called for one alias after the other.  They read  *)
(* cw.config, the agent and the files and assign to none of them.          *)
(***************************************************************************)
MaxResolutions == 3

\* What the k-th block may set: nothing, an address and a user, no strict
\* checking, or a port with strict checking.
ResSettings(k) ==
    { [key \in {} |-> <<>>],
      [key \in {"Hostname", "User"} |-> ValueAt(k, key)],
      [key \in {"StrictHostKeyChecking"} |-> <<"n", "o">>],
      [key \in {"Port", "StrictHostKeyChecking"} |->
          IF key = "Port" THEN ValueAt(k, key) ELSE <<"y", "e", "s">>] }

ResBlocks(k) == {[pattern |-> pat, kv |-> kv] : pat \in AuthPatterns, kv \in ResSettings(k)}

RECURSIVE ResConfigsOfLen(_)
ResConfigsOfLen(n) ==
    IF n = 0 THEN {<<>>}
    ELSE {Append(c, b) : c \in ResConfigsOfLen(n - 1), b \in ResBlocks(n)}

ResConfigs == UNION {ResConfigsOfLen(n) : n \in 0..MaxBlocks}

InitRes ==
    /\ OrchIdle
    /\ ConnIdle
    /\ CopyIdle
    /\ RunIdle
    /\ PathIdle
    /\ MoreIdle
    /\ cfFile = <<"c">>
    /\ cfHomeOk = TRUE
    /\ cfKind = "config"
    /\ cfBlocks \in ResConfigs
    /\ cfAlias = <<>>
    /\ cfAgent = "one"
    /\ cfFiles \in {f \in AuthFiles : f[<<"/", "h", "/", "k">>] = "key" /\ f[<<"f">>] = "hosts" /\ f[<<"g">>] = "hosts"}
    /\ cfUserOk = TRUE
    /\ cfPc = "parsed"
    /\ cfParse = ParseSSHConfig(cfFile, cfHomeOk, cfKind, cfBlocks)
    /\ cfAddr = <<>>
    /\ cfHostKey = [callback |-> NoConfig, err |-> Nil]
    /\ cfClient = [config |-> NoConfig, err |-> Nil]

resolved == <<cfFile, cfHomeOk, cfKind, cfBlocks, cfAgent, cfFiles, cfUserOk, cfPc,
              cfParse, cfHostKey>>

\* config.ConnectAddr(hostAlias), once more.
ConnectAddrAgain(hostAlias) ==
    /\ cfPc = "parsed"
    /\ Len(rsLog) < MaxResolutions
    /\ cfAlias' = hostAlias
    /\ cfAddr' = ConnectAddr(cfParse.config, hostAlias)
    /\ rsLog' = Append(rsLog, [op |-> "ConnectAddr", alias |-> hostAlias, ret |-> cfAddr'])
    /\ UNCHANGED <<resolved, cfClient, exceptRes>>

\* ClientConfig answers for the alias of the call before.
ClientConfigStale(hostAlias) ==
    /\ cfPc = "parsed"
    /\ Len(rsLog) < MaxResolutions
    /\ cfAlias' = hostAlias
    /\ cfClient' = ClientConfigOf(cfParse.config,
                                   IF cfAlias = <<>> THEN hostAlias ELSE cfAlias,
                                   cfAgent, cfFiles, cfUserOk)
    /\ rsLog' = Append(rsLog, [op |-> "ClientConfig", alias |-> hostAlias, ret |-> cfClient'])
    /\ UNCHANGED <<resolved, cfAddr, exceptRes>>

\* config.ClientConfig(hostAlias), once more.
ClientConfigAgain(hostAlias) ==
    /\ cfPc = "parsed"
    /\ Len(rsLog) < MaxResolutions
    /\ cfAlias' = hostAlias
    /\ cfClient' = ClientConfigOf(cfParse.config, hostAlias, cfAgent, cfFiles, cfUserOk)
    /\ rsLog' = Append(rsLog, [op |-> "ClientConfig", alias |-> hostAlias, ret |-> cfClient'])
    /\ UNCHANGED <<resolved, cfAddr, exceptRes>>

NextRes ==
    \/ \E hostAlias \in AuthAliases : ConnectAddrAgain(hostAlias)
    \/ \E hostAlias \in AuthAliases : ClientConfigAgain(hostAlias)

SpecRes == InitRes /\ [][NextRes]_vars

\* What a ClientConfig call settled: the error, or the user and the kind of
\* host-key policy.
Settled(ret) ==
    IF ret.err /= Nil THEN <<ret.err>>
    ELSE <<ret.config.User, ret.config.HostKeyCallback.kind>>

MaxCalls == 3

StoreHosts == {"h1", "h2"}

StoreKeys == {"k", "l"}

\* A value of type any: a string, an int, or nil.
StrVal(s) == [type |-> "string", v |-> s]

IntVal(i) == [type |-> "int", v |-> i]

NilVal == [type |-> "nil"]

StoreVals == {StrVal(<<"s">>), IntVal(1)}

\* h.vars[key] = val on the map of every host.
SetVarShared(all, h, key, val) ==
    [g \in DOMAIN all |-> (key :> val) @@ all[g]]

\* sshHost.SetVar: h.vars[key] = val
SetVar(all, h, key, val) ==
    [all EXCEPT ![h] = (key :> val) @@ all[h]]

\* sshHost.GetVar: val, ok = h.vars[key]
GetVar(all, h, key) ==
    IF key \in DOMAIN all[h] THEN [val |-> all[h][key], ok |-> TRUE]
    ELSE [val |-> NilVal, ok |-> FALSE]

\* GetStringVar: s, _ := val.(string)
GetStringVar(all, h, key) ==
    LET got == GetVar(all, h, key)
    IN IF got.ok
       THEN IF got.val.type = "string" THEN got.val.v ELSE <<>>
       ELSE <<>>

\* GetIntVar: i, _ := val.(int)
GetIntVar(all, h, key) ==
    LET got == GetVar(all, h, key)
    IN IF got.ok
       THEN IF got.val.type = "int" THEN got.val.v ELSE 0
       ELSE 0

InitStore ==
    /\ BeforeLateIdle
    /\ ExecIdle
    /\ CloseIdle
    /\ ExpandIdle
    /\ stVars = [h \in StoreHosts |-> <<>>]
    /\ stLog = <<>>

StoreCall(op, h, key, val, ret) ==
    stLog' = Append(stLog, [op |-> op, h |-> h, key |-> key, val |-> val, ret |-> ret])

\* host.SetVar(key, val)
SetVarCall(h, key, val) ==
    /\ Len(stLog) < MaxCalls
    /\ stVars' = SetVar(stVars, h, key, val)
    /\ StoreCall("SetVar", h, key, val, NilVal)
    /\ UNCHANGED exceptStore

\* host.GetVar(key)
GetVarCall(h, key) ==
    /\ Len(stLog) < MaxCalls
    /\ StoreCall("GetVar", h, key, NilVal, GetVar(stVars, h, key))
    /\ UNCHANGED <<stVars, exceptStore>>

\* GetStringVar(host, key)
GetStringVarCall(h, key) ==
    /\ Len(stLog) < MaxCalls
    /\ StoreCall("GetStringVar", h, key, NilVal, GetStringVar(stVars, h, key))
    /\ UNCHANGED <<stVars, exceptStore>>

\* GetIntVar(host, key)
GetIntVarCall(h, key) ==
    /\ Len(stLog) < MaxCalls
    /\ StoreCall("GetIntVar", h, key, NilVal, GetIntVar(stVars, h, key))
    /\ UNCHANGED <<stVars, exceptStore>>

NextStore ==
    \E h \in StoreHosts, key \in StoreKeys :
        \/ \E val \in StoreVals : SetVarCall(h, key, val)
        \/ GetVarCall(h, key)
        \/ GetStringVarCall(h, key)
        \/ GetIntVarCall(h, key)

SpecStore == InitStore /\ [][NextStore]_vars

\* The calls before call i that set key on host h.
SetsBefore(i, h, key) ==
    {j \in 1..(i - 1) : stLog[j].op = "SetVar" /\ stLog[j].h = h /\ stLog[j].key = key}

\* The greatest of a set of numbers that is not empty.
Latest(set) == CHOOSE j \in set : \A m \in set : m <= j

\* What call i finds under its key: <<>> when the key was never set on its
\* host, else <<v>> for the value of the last SetVar.
Found(i) ==
    LET sets == SetsBefore(i, stLog[i].h, stLog[i].key)
    IN IF sets = {} THEN <<>> ELSE <<stLog[Latest(sets)].val>>

\* The step is SetVar(key, val) on host h.
IsSetVar(h, key) ==
    /\ Len(stLog') = Len(stLog) + 1
    /\ stLog'[Len(stLog')].op = "SetVar"
    /\ stLog'[Len(stLog')].h = h
    /\ stLog'[Len(stLog')].key = key

\* What host h has under key: <<>> or <<v>>.
Held(all, h, key) == IF key \in DOMAIN all[h] THEN <<all[h][key]>> ELSE <<>>

\* C39: GetVar(k) on a host returns (v, true) for the v of the last
\* SetVar(k, v) on that host and (nil, false) when k was never set there;
\* GetStringVar and GetIntVar return the empty string and 0 for an absent
\* key and for a value of another type, and the value itself otherwise;
\* a step changes what a host holds under a key only if it is SetVar of
\* that key on that host.
C39_VarsPerHostAndKey ==
    /\ [](\A i \in 1..Len(stLog) :
            LET e == stLog[i]
                found == Found(i)
            IN /\ e.op = "GetVar" =>
                     e.ret = IF found = <<>> THEN [val |-> NilVal, ok |-> FALSE]
                             ELSE [val |-> found[1], ok |-> TRUE]
               /\ e.op = "GetStringVar" =>
                     e.ret = IF found /= <<>> /\ found[1].type = "string"
                             THEN found[1].v ELSE <<>>
               /\ e.op = "GetIntVar" =>
                     e.ret = IF found /= <<>> /\ found[1].type = "int"
                             THEN found[1].v ELSE 0)
    /\ [][\A h \in StoreHosts, key \in StoreKeys :
             Held(stVars', h, key) /= Held(stVars, h, key) => IsSetVar(h, key)]_vars

\* k is set twice on h1 with values of two types; then GetStringVar(k) on
\* h1 finds the int and gives the empty string.
C39_Witness ==
    /\ Len(stLog) = 3
    /\ stLog[1] = [op |-> "SetVar", h |-> "h1", key |-> "k", val |-> StrVal(<<"s">>),
                   ret |-> NilVal]
    /\ stLog[2] = [op |-> "SetVar", h |-> "h1", key |-> "k", val |-> IntVal(1),
                   ret |-> NilVal]
    /\ stLog[3].op = "GetStringVar" /\ stLog[3].h = "h1" /\ stLog[3].key = "k"
    /\ stLog[3].ret = <<>>
    /\ stVars["h2"] = <<>>


(***************************************************************************)
(* sshHost.Execute.  The session is the one of the section on running a    *)
(* command: Run returns once the command has ended or the session was      *)
(* closed under it; Close of a running session returns nil, Close of a     *)
(* session whose command has ended or whose connection is lost reports     *)
(* io.EOF.  The goroutine writes the result err through a pointer while    *)
(* the caller sets it on return: the two writes are steps of their own and *)
(* happen in either order.                                                 *)
(***************************************************************************)
NewSessionError == Leaf("ssh: NewSession failed")

ConnectionLost == Leaf("ssh: connection lost")

Outputs == {<<>>, <<"a">>, <<"a", "a">>}

Commands == [out : Outputs, end : {"ok", "exit", "io"}]

InitExec ==
    /\ BeforeLateIdle
    /\ StoreIdle
    /\ CloseIdle
    /\ ExpandIdle
    /\ exPc = "idle"
    /\ exHelper = "none"
    /\ exParent \in BOOLEAN
    /\ exChild = FALSE
    /\ exSess = "none"
    /\ exCmd \in Commands
    /\ exBuf = <<>>
    /\ exRunErr = Nil
    /\ exCloseErr = Nil
    /\ exOut = <<>>
    /\ exErr = Nil

\* session, err := h.client.NewSession(): on an error Execute returns it;
\* else childCtx is made, the two deferred calls are set and the goroutine
\* starts.
ExecuteCall(ok) ==
    /\ exPc = "idle"
    /\ IF ok
       THEN /\ exSess' = "open"
            /\ exHelper' = "waiting"
            /\ exPc' = "started"
            /\ UNCHANGED exErr
       ELSE /\ exErr' = NewSessionError
            /\ exPc' = "returned"
            /\ UNCHANGED <<exSess, exHelper>>
    /\ UNCHANGED <<exParent, exChild, exCmd, exBuf, exRunErr, exCloseErr, exOut>>
    /\ UNCHANGED exceptExec

\* The context given to Execute is cancelled.
ExecParentDone ==
    /\ exPc \notin {"idle", "returned"}
    /\ ~exParent
    /\ exParent' = TRUE
    /\ UNCHANGED <<exPc, exHelper, exChild, exSess, exCmd, exBuf, exRunErr,
                   exCloseErr, exOut, exErr>>
    /\ UNCHANGED exceptExec

\* The goroutine: after <-childCtx.Done(), safeClose calls session.Close().
HelperClose ==
    /\ exHelper = "waiting"
    /\ exParent \/ exChild
    /\ exCloseErr' = IF exSess \in {"open", "running"} THEN Nil ELSE EOF
    /\ exSess' = IF exSess \in {"open", "running"} THEN "killed" ELSE exSess
    /\ exHelper' = "closed"
    /\ UNCHANGED <<exPc, exParent, exChild, exCmd, exBuf, exRunErr, exOut, exErr>>
    /\ UNCHANGED exceptExec

\* safeClose lets the error of Close replace the error held.
safeCloseOverwrite(err, held) ==
    IF Is(err, EOF) THEN held
    ELSE err

\* safeClose(closer, errPtr, io.EOF) after closer.Close() has returned err.
safeClose(err, held) ==
    IF held /= Nil THEN held
    ELSE IF Is(err, EOF) THEN held
    ELSE err

\* The goroutine: the rest of safeClose, then close(c).
HelperStore ==
    /\ exHelper = "closed"
    /\ exErr' = safeClose(exCloseErr, exErr)
    /\ exHelper' = "done"
    /\ UNCHANGED <<exPc, exParent, exChild, exSess, exCmd, exBuf, exRunErr,
                   exCloseErr, exOut>>
    /\ UNCHANGED exceptExec

\* session.Stdout = &buf; session.Run(cmd) starts the command, or fails at
\* once on a session that is closed already.
SessionRunStart ==
    /\ exPc = "started"
    /\ IF exSess = "open"
       THEN /\ exSess' = "running"
            /\ exPc' = "running"
            /\ UNCHANGED exRunErr
       ELSE /\ exRunErr' = EOF
            /\ exPc' = "ran"
            /\ UNCHANGED exSess
    /\ UNCHANGED <<exHelper, exParent, exChild, exCmd, exBuf, exCloseErr, exOut, exErr>>
    /\ UNCHANGED exceptExec

\* The command ends: it exits with status 0 or another status after
\* writing its output, or the connection is lost while it runs.
CommandEnds ==
    /\ exSess = "running"
    /\ exSess' = IF exCmd.end = "io" THEN "lost" ELSE "exited"
    /\ exBuf' = IF exCmd.end = "io" THEN <<>> ELSE exCmd.out
    /\ UNCHANGED <<exPc, exHelper, exParent, exChild, exCmd, exRunErr, exCloseErr,
                   exOut, exErr>>
    /\ UNCHANGED exceptExec

\* What session.Run returns.
RunResult ==
    IF exSess = "killed" THEN ExitMissing
    ELSE IF exSess = "lost" THEN ConnectionLost
    ELSE IF exCmd.end = "exit" THEN ExitError
    ELSE Nil

\* session.Run(cmd) returns.
SessionRunReturn ==
    /\ exPc = "running"
    /\ exSess \in {"exited", "lost", "killed"}
    /\ exRunErr' = RunResult
    /\ exPc' = "ran"
    /\ UNCHANGED <<exHelper, exParent, exChild, exSess, exCmd, exBuf, exCloseErr,
                   exOut, exErr>>
    /\ UNCHANGED exceptExec

\* Execute returns the error of session.Run.
ExecuteReturnErr(runErr, buf) ==
    IF runErr /= Nil THEN [output |-> <<>>, err |-> runErr]
    ELSE [output |-> buf, err |-> Nil]

\* if err := session.Run(cmd); err != nil { return "", nil }
\* return buf.String(), nil
ExecuteReturn(runErr, buf) ==
    IF runErr /= Nil THEN [output |-> <<>>, err |-> Nil]
    ELSE [output |-> buf, err |-> Nil]

\* The return statement sets the results.
ExecReturn ==
    /\ exPc = "ran"
    /\ exOut' = ExecuteReturn(exRunErr, exBuf).output
    /\ exErr' = ExecuteReturn(exRunErr, exBuf).err
    /\ exPc' = "cancel"
    /\ UNCHANGED <<exHelper, exParent, exChild, exSess, exCmd, exBuf, exRunErr,
                   exCloseErr>>
    /\ UNCHANGED exceptExec

\* defer cancel()
ExecCancel ==
    /\ exPc = "cancel"
    /\ exChild' = TRUE
    /\ exPc' = "join"
    /\ UNCHANGED <<exHelper, exParent, exSess, exCmd, exBuf, exRunErr, exCloseErr,
                   exOut, exErr>>
    /\ UNCHANGED exceptExec

\* defer func() { <-c }(): Execute returns once the goroutine has closed c.
ExecJoin ==
    /\ exPc = "join"
    /\ exHelper = "done"
    /\ exPc' = "returned"
    /\ UNCHANGED <<exHelper, exParent, exChild, exSess, exCmd, exBuf, exRunErr,
                   exCloseErr, exOut, exErr>>
    /\ UNCHANGED exceptExec

NextExec ==
    \/ \E ok \in BOOLEAN : ExecuteCall(ok)
    \/ ExecParentDone
    \/ HelperClose
    \/ HelperStore
    \/ SessionRunStart
    \/ CommandEnds
    \/ SessionRunReturn
    \/ ExecReturn
    \/ ExecCancel
    \/ ExecJoin

SpecExec == InitExec /\ [][NextExec]_vars

Handles == {"from", "to"}

\* What Open and OpenFile may return: nil, or one of two errors.
OpenResultsOf(h) ==
    {Nil, [kind |-> "err", msg |-> "not exist", file |-> h],
          [kind |-> "err", msg |-> "permission denied", file |-> h]}

ErrUnsupported == Leaf("unsupported operation")

\* fmt.Errorf("cannot write to %s: %v", dest, fs.ErrUnsupported)
CannotWrite == Leaf("cannot write to dest: unsupported operation")

CopyError == Leaf("io.Copy: write failed")

\* What io.Copy may return: nil, the error of a Read, the error of a Write.
CopyResults == {Nil, Leaf("io.Copy: read failed"), CopyError}

CloseError(h) == Leaf("close " \o h)

\* What Close may return: nil, io.EOF, io.EOF wrapped, another error.
CloseResultsOf(h) == {Nil, EOF, WrapPath(<<"f">>, EOF), CloseError(h)}

InitClose ==
    /\ BeforeLateIdle
    /\ StoreIdle
    /\ ExecIdle
    /\ ExpandIdle
    /\ ckPc = "idle"
    /\ ckErr = Nil
    /\ ckFirst = <<>>
    /\ ckOpened = {}
    /\ ckCloses = [h \in Handles |-> 0]
    /\ ckCloseErr = [h \in Handles |-> Nil]
    /\ ckWriter \in BOOLEAN

\* return err: the result is set, the deferred calls follow from pc.
ReturnWith(err, pc) ==
    /\ ckErr' = err
    /\ ckFirst' = <<err>>
    /\ ckPc' = pc

\* fromF, err := from.Open(src)
OpenSrc(r) ==
    /\ ckPc = "idle"
    /\ IF r = Nil
       THEN /\ ckOpened' = ckOpened \cup {"from"}
            /\ ckPc' = "src"
            /\ UNCHANGED <<ckErr, ckFirst>>
       ELSE /\ ReturnWith(r, "returned")
            /\ UNCHANGED ckOpened
    /\ UNCHANGED <<ckCloses, ckCloseErr, ckWriter, exceptHandles>>

\* toF, err := fs.OpenFile(to, dest, O_WRONLY|O_CREATE|O_TRUNC, perm.GetFilePerm())
OpenDest(r) ==
    /\ ckPc = "src"
    /\ IF r = Nil
       THEN /\ ckOpened' = ckOpened \cup {"to"}
            /\ ckPc' = "dest"
            /\ UNCHANGED <<ckErr, ckFirst>>
       ELSE /\ ReturnWith(r, "closeSrc")
            /\ UNCHANGED ckOpened
    /\ UNCHANGED <<ckCloses, ckCloseErr, ckWriter, exceptHandles>>

\* writer, ok := toF.(io.Writer)
AssertWriter ==
    /\ ckPc = "dest"
    /\ IF ckWriter
       THEN ckPc' = "copy" /\ UNCHANGED <<ckErr, ckFirst>>
       ELSE ReturnWith(CannotWrite, "closeDest")
    /\ UNCHANGED <<ckOpened, ckCloses, ckCloseErr, ckWriter, exceptHandles>>

\* _, err = io.Copy(writer, fromF); return err
CopyBytes(r) ==
    /\ ckPc = "copy"
    /\ ReturnWith(r, "closeDest")
    /\ UNCHANGED <<ckOpened, ckCloses, ckCloseErr, ckWriter, exceptHandles>>

\* A deferred safeClose(f, &err, io.EOF) runs: Close returns r.
DeferredClose(h, r, pc) ==
    /\ ckCloses' = [ckCloses EXCEPT ![h] = @ + 1]
    /\ ckCloseErr' = [ckCloseErr EXCEPT ![h] = r]
    /\ ckErr' = safeClose(r, ckErr)
    /\ ckPc' = pc
    /\ UNCHANGED <<ckFirst, ckOpened, ckWriter, exceptHandles>>

\* defer safeClose(toF, &err, io.EOF), set last, runs first.
CloseDest(r) ==
    /\ ckPc = "closeDest"
    /\ DeferredClose("to", r, "closeSrc")

\* defer safeClose(fromF, &err, io.EOF)
CloseSrc(r) ==
    /\ ckPc = "closeSrc"
    /\ DeferredClose("from", r, "returned")

NextClose ==
    \/ \E r \in OpenResultsOf("from") : OpenSrc(r)
    \/ \E r \in OpenResultsOf("to") : OpenDest(r)
    \/ AssertWriter
    \/ \E r \in CopyResults : CopyBytes(r)
    \/ \E r \in CloseResultsOf("to") : CloseDest(r)
    \/ \E r \in CloseResultsOf("from") : CloseSrc(r)

SpecClose == InitClose /\ [][NextClose]_vars

\* The error of a Close that counts: not nil and not end-of-stream.
Counts(err) == err /= Nil /\ ~Is(err, EOF)

\* C34: when copyFile has returned, every handle it opened has been closed,
\* once, and no other; an error set by a return statement is the result
\* whatever the Close calls gave; with no such error the result is the
\* error of the first Close, the destination's before the source's, that is
\* neither nil nor end-of-stream, and nil when there is none.
C34_HandlesClosedErrorKept ==
    ckPc = "returned" =>
        /\ \A h \in Handles : ckCloses[h] = IF h \in ckOpened THEN 1 ELSE 0
        /\ ckFirst[1] /= Nil => ckErr = ckFirst[1]
        /\ ckFirst[1] = Nil =>
              ckErr = IF Counts(ckCloseErr["to"]) THEN ckCloseErr["to"]
                      ELSE IF Counts(ckCloseErr["from"]) THEN ckCloseErr["from"]
                      ELSE Nil

\* The copy failed and both Close calls failed too: the error of the copy
\* is the result.
C34_Witness ==
    /\ ckPc = "returned"
    /\ ckFirst = <<CopyError>>
    /\ ckCloseErr = [h \in Handles |-> CloseError(h)]
    /\ ckCloses = [h \in Handles |-> 1]
    /\ ckErr = CopyError


(***************************************************************************)
(* Upload.Apply and Download.Apply: what they hand to copyAction.Apply.    *)
(* The strings are over $, /, H and a; a name is a run of H and a, and $$  *)
(* is the one special variable; there is no brace in them.                 *)
(***************************************************************************)
ShellNameChars == {"H", "a"}

\* sshHost.GetEnv: h.env[key], the empty string for a name that is not set.
GetEnv(env, name) == IF name \in DOMAIN env THEN env[name] ELSE <<>>

\* The length of the run of name characters s starts with.
RECURSIVE NameRun(_, _)
NameRun(s, i) ==
    IF i < Len(s) /\ s[i + 1] \in ShellNameChars THEN NameRun(s, i + 1) ELSE i

\* getShellName of os: the name s starts with and the bytes it takes.
getShellName(s) ==
    IF s[1] = "$" THEN [name |-> <<"$">>, w |-> 1]
    ELSE LET i == NameRun(s, 0) IN [name |-> SubSeq(s, 1, i), w |-> i]

\* os.Expand(s, mapping) from byte j on.
RECURSIVE ExpandFrom(_, _, _)
ExpandFrom(env, s, j) ==
    IF j > Len(s) THEN <<>>
    ELSE IF s[j] = "$" /\ j + 1 <= Len(s)
    THEN LET n == getShellName(SubSeq(s, j + 1, Len(s)))
             put == IF n.name = <<>> /\ n.w > 0 THEN <<>>
                    ELSE IF n.name = <<>> THEN <<"$">>
                    ELSE GetEnv(env, n.name)
         IN put \o ExpandFrom(env, s, j + n.w + 1)
    ELSE <<s[j]>> \o ExpandFrom(env, s, j + 1)

\* Expand(h, s): os.Expand(s, h.GetEnv)
Expand(env, s) == ExpandFrom(env, s, 1)

\* Path.Expand: both strings expanded and cleaned.
PathExpand(env, p) ==
    Path(CleanPath(Expand(env, p.prefix)), CleanPath(Expand(env, p.path)))

\* copyAction{src: u.Src, dest: u.Dest, perm: u.Perm, fetch: ...}, and the
\* fs.Stat(from, ca.src.path) that is its first operation on a file.
copyAction(src, dest, fetch) ==
    [src |-> src, dest |-> dest, fetch |-> fetch,
     stat |-> [root |-> src.prefix, name |-> src.path]]

ExpandPrefixes == {<<"/", "a">>, <<"/", "$", "H">>}

ExpandNames == {<<"a">>, <<"$">>, <<"$", "$">>, <<"$", "H">>, <<"$", "H", "/", "a">>}

\* The paths NewPath makes of these strings.
ExpandPaths == {NewPath(prefix, path).p : prefix \in ExpandPrefixes, path \in ExpandNames}

\* The environment fetched from the host: H is set or not.
Environments == {[n \in {} |-> <<>>], [n \in {<<"H">>} |-> <<"h">>]}

InitExpand ==
    /\ BeforeLateIdle
    /\ StoreIdle
    /\ ExecIdle
    /\ CloseIdle
    /\ epSrc \in ExpandPaths
    /\ epDest \in ExpandPaths
    /\ epEnv \in Environments
    /\ epPc = "idle"
    /\ epCa = <<>>

\* Upload{Src, Dest, Perm}.Apply(ctx, host)
UploadPaths ==
    /\ epPc = "idle"
    /\ epCa' = <<copyAction(epSrc, epDest, FALSE)>>
    /\ epPc' = "applied"
    /\ UNCHANGED <<epSrc, epDest, epEnv, exceptExpand>>

\* Download{Src, Dest, Perm}.Apply(ctx, host)
DownloadPaths ==
    /\ epPc = "idle"
    /\ epCa' = <<copyAction(epSrc, epDest, TRUE)>>
    /\ epPc' = "applied"
    /\ UNCHANGED <<epSrc, epDest, epEnv, exceptExpand>>

NextExpand ==
    \/ UploadPaths
    \/ DownloadPaths

SpecExpand == InitExpand /\ [][NextExpand]_vars

\* C33: the paths Upload.Apply and Download.Apply copy with are Src and
\* Dest with the $NAME references of prefix and path replaced by the values
\* of the host's environment, and the first operation on a file is made on
\* the path so resolved.
C33_PathsExpandedOnce ==
    epPc = "applied" =>
        /\ epCa[1].src = PathExpand(epEnv, epSrc)
        /\ epCa[1].dest = PathExpand(epEnv, epDest)
        /\ epCa[1].stat = [root |-> PathExpand(epEnv, epSrc).prefix,
                           name |-> PathExpand(epEnv, epSrc).path]


====
